---- MODULE Spec2Model ----
(***************************************************************************)
(* A model of three stages of the mosdns query pipeline:                   *)
(*   - the fallback combinator   (package fallback,  doFallback)           *)
(*   - the forwarder             (package fastforward, Forward.Exec)       *)
(*   - the response cache        (package cache, Cache.Exec/doLazyUpdate)  *)
(* Each stage has its own specification (SpecFallback, SpecForward,        *)
(* SpecCache); the variables of the other stages stay at their idle value. *)
(*                                                                         *)
(* Go's select is modelled as the runtime executes it: on entry one of the *)
(* ready cases is chosen at random; when none is ready the goroutine parks *)
(* and the first event that makes a case ready wakes it with that case.    *)
(* A parked goroutine with a ready case is therefore resumed before any    *)
(* other event of the stage happens (FbSelPending).                        *)
(***************************************************************************)
EXTENDS Integers, Sequences, FiniteSets, TLC

\* ------------------------------------------------------------------ bounds
MaxTime == 4
MaxUpstreams == 3
MaxReq == 2
MaxCallers == 3
MaxMark == 3
MaxOps == 3
Threshold == 2
ParallelTimeout == 3

Nil == "nil"
NoTimer == -1

VARIABLES
    \* ---- fallback: one doFallback call
    fbStandby,    \* f.alwaysStandby
    fbHasDdl,     \* the outer ctx carries a deadline (makeDdlCtx)
    fbPDur,       \* how long f.primary.Exec takes, NoTimer: any time
    fbSDur,       \* how long f.secondary.Exec takes, NoTimer: any time
    now,          \* wall clock, in threshold units
    ctxDone,      \* outer ctx.Done() is closed
    qR,           \* qCtx.R(): the response on the caller's query context
    pcM,          \* the waiter: "enter" | "parked" | "ret"
    iter,         \* loop counter i of the result loop
    fbRet,        \* what doFallback returned: "pending" | "ok" | "cause" | "ErrFailed"
    respChan,     \* buffered channel, capacity 2
    respClosed,   \* close(respChan) has run
    primFailed,   \* close(primFailed) has run
    primDone,     \* close(primDone) has run
    pcP,          \* primary goroutine: "exec" | "notify" | "send" | "fin" | "done"
    pErr,         \* err of f.primary.Exec
    pR,           \* qCtxP.R()
    pcS,          \* secondary goroutine
    sErr,         \* err of f.secondary.Exec
    sR,           \* qCtxS.R()
    sInvoked,     \* f.secondary.Exec has been called
    tmr1,         \* deadline of time.After at the non-standby select, or NoTimer
    tmr2,         \* deadline of time.After at the standby select, or NoTimer
    sDdl,         \* own deadline of the secondary's ctx, or NoTimer
    sDue,         \* the time f.secondary.Exec returns at, NoTimer: any time
    wg,           \* sync.WaitGroup counter
    primDoneAt,   \* history: the time close(primDone) ran, or NoTimer
    ctxAt,        \* history: where doFallback stood when the outer ctx became done
    \* ---- forward: one Forward.Exec call
    fwN,          \* len(f.args.Upstreams)
    fwConcurrent, \* f.args.Concurrent (0: not configured)
    fwPc,         \* Exec: "loop" | "enter" | "parked" | "ret"
    fwI,          \* index of the next upstream of the dispatch loop
    fwSem,        \* number of slots held in sem
    fwWg,         \* sync.WaitGroup counter
    fwCloser,     \* the goroutine of wg.Wait(); close(errCh) has been started
    fwTask,       \* per upstream: "none" | "run" | "fin" | "done"
    fwOutcome,    \* per upstream: "none" | "answer" | "empty" | "err"
    fwErrCh,      \* buffered channel of errors, each named by its upstream
    fwErrClosed,  \* close(errCh) has run
    fwCtxDone,    \* ctx.Done() is closed
    fwAnswer,     \* the upstream whose answer qCtx carries, or 0
    fwRet,        \* "pending" | "nil" | "uperr" | "ctxerr"
    fwRetErr,     \* the upstream whose error Exec returned, or 0
    \* ---- cache: concurrent Cache.Exec calls on one Cache
    caInputs,     \* the request messages the clients of the run send
    caLazy,       \* c.args.LazyCacheTTL > 0
    caBackend,    \* c.backend: key -> item
    caUpdated,    \* c.updatedKey
    caSfStore,    \* c.lazyUpdateMap: key -> the request whose local sf is stored, or 0
    caGrpM,       \* per request: field m of its local singleflight.Group (0: nil map)
    caMapCall,    \* per map: the request whose task runs the registered call, or 0
    rq,           \* per request: the request message qCtx.Q()
    rKey,         \* per request: msgKey
    rpc,          \* per request: position in Cache.Exec
    rCached,      \* per request: cachedResp
    rLazyHit,     \* per request: lazyHit
    rResp,        \* per request: qCtx.R()
    rErr,         \* per request: err of the synchronous next.ExecNext
    rNextCalls,   \* per request: synchronous calls of next on the request's context
    rRet,         \* per request: what Exec returned: "pending" | "nil" | "err"
    rCtxDone,     \* per request: the ctx Exec was called with is done
    tpc,          \* per request: position of its background goroutine
    tJoin,        \* per request: the call its goroutine joined in Do, 0 if none
    tNextCalls,   \* per request: calls of next on the copy of the context
    tOutcome,     \* per request: err of next inside its lazyUpdateFunc:
                  \* "ok" | "err" | "cancelled", "none" outside the function
    \* ---- forward: concurrent getUpstream calls on one Forward
    upstreamCache, \* f.upstreamCache: address -> handle
    mu,           \* f.mu: the caller that holds it, or 0
    guPc,         \* per caller: "idle" | "lookup" | "create" | "done"
    guAddr,       \* per caller: us.Addr
    guUp,         \* per caller: what getUpstream returned
    guCreated,    \* per address: successful upstream.NewUpstream calls so far
    \* ---- redirect: the Redirect.Exec calls of one Redirect, one after another
    rdMatch,      \* r.m: name -> redirect target of the loaded rules
    rdCache,      \* r.cache: name -> target
    rdPc,         \* Exec: "idle" | "next" | "done"
    rdQ,          \* the request message qCtx.Q()
    rdQ0,         \* history: the request as it was when Exec was entered
    rdOrg,        \* orgQName
    rdTarget,     \* redirectTarget, NoTarget when the request is passed through
    rdNextR,      \* history: the response as next left it
    rdNextQ,      \* history: the request as next left it
    rdR,          \* qCtx.R()
    rdRet,        \* what Exec returned: "pending" | "nil" | "err"
    \* ---- fallback: the query contexts of one doFallback call
    qcMsg,        \* the dns.Msg objects: address -> name of the first question
    qcCtx,        \* the contexts qCtx, qCtxP, qCtxS: the messages they point to
    qcMain,       \* doFallback: "copyP" | "copyS" | "wait" | "ret"
    qcPc,         \* per branch: "idle" | "start" | "next" | "answered" | "done"
    qcOrg,        \* per branch: orgQName of its Redirect.Exec, NoTarget if none
    \* ---- the contexts of the sub-tasks spawned for one request
    scNow,        \* wall clock
    scOuter,      \* the outer ctx: its deadline (NoTimer: none), cancelled or not
    scSub,        \* per sub-task: the context it runs on, ScNoCtx before it starts
    \* ---- mark: the calls of one mark stage on one query context
    mkM,          \* m.m: the configured marks, in order
    mkMarks,      \* the marks the query context carries
    mkRes,        \* what the last Match returned, "none" before the first
    mkHist,       \* history: the calls so far, "Match" | "Exec" | "SetMark"
    \* ---- redirect: the memo cache under concurrent Redirect.Exec calls
    mcNow,        \* wall clock, in units of half of cacheExpire
    mcCache,      \* r.cache: name -> target and (history) the time it was written
    mcTimers,     \* the sleeping goroutines of setCache: key and wake-up time
    mcPc,         \* per request: "idle" | "match" | "done"
    mcKey,        \* per request: orgQName
    \* ---- redirect: NewRedirect and its loader goroutines
    nrFiles,      \* len(args.Files)
    nrPc,         \* NewRedirect: "rules" | "files" | "wait" | "recv" | "ret"
    nrI,          \* index of the next file of the spawning loop
    nrTask,       \* per loader: "none" | "run" | "lock" | "send" | "unlock" | "done"
    nrFailed,     \* history: the loaders whose load failed
    nrMu,         \* mu: its holder, NoLoader when free
    nrErrChan,    \* errChan: the loaders whose errors are buffered
    nrClosed,     \* errChan is closed
    nrWg,         \* wg: its counter
    nrRet,        \* "pending" | "err" | "ok"
    nrCache,      \* the cache of the Redirect returned; NoCache when none
    \* ---- base_domain: Matcher.Match over the sub-matchers of m.mg
    dmN,          \* len(m.mg)
    dmPc,         \* Match: "loop" | "wait" | "ret"
    dmI,          \* index of the next sub-matcher of the spawning loop
    dmTask,       \* per task: "none" | "call" | "err" | "lockE" | "setE" |
                  \*           "matched" | "lockM" | "setM" | "done"
    dmLocMatched, \* per task: the goroutine's own matched (declared by :=)
    dmLocErr,     \* per task: the goroutine's err, NoErr when nil
    dmReported,   \* history: the sub-matchers whose m.match returned true
    dmMu,         \* mu: its holder, NoLoader when free
    dmMatched,    \* Match's matched
    dmFirstErr,   \* Match's firstErr, NoErr when nil
    dmWg,         \* wg: its counter
    dmRet         \* what Match returned: NoRet, or its bool and its error

fbCfg == <<fbStandby, fbHasDdl, fbPDur, fbSDur>>
fbClock == <<now, ctxDone>>
fbMain == <<qR, pcM, iter, fbRet>>
fbChans == <<respChan, respClosed, primFailed, primDone>>
fbPrim == <<pcP, pErr, pR>>
fbSec == <<pcS, sErr, sR, sInvoked, tmr1, tmr2, sDdl, sDue>>
fbHist == <<primDoneAt, ctxAt>>
fbVars == <<fbCfg, fbClock, fbMain, fbChans, fbPrim, fbSec, wg, fbHist>>

fwVars == <<fwN, fwConcurrent, fwPc, fwI, fwSem, fwWg, fwCloser, fwTask, fwOutcome, fwErrCh,
            fwErrClosed, fwCtxDone, fwAnswer, fwRet, fwRetErr>>

caShared == <<caInputs, caLazy, caBackend, caUpdated, caSfStore, caGrpM, caMapCall>>
caReq == <<rq, rKey, rpc, rCached, rLazyHit, rResp, rErr, rNextCalls, rRet>>
caTask == <<tpc, tJoin, tNextCalls, tOutcome>>
caVars == <<caShared, caReq, caTask, rCtxDone>>

guVars == <<upstreamCache, mu, guPc, guAddr, guUp, guCreated>>

rdVars == <<rdMatch, rdCache, rdPc, rdQ, rdQ0, rdOrg, rdTarget, rdNextR, rdNextQ, rdR,
            rdRet>>

qcVars == <<qcMsg, qcCtx, qcMain, qcPc, qcOrg>>

scVars == <<scNow, scOuter, scSub>>

mkVars == <<mkM, mkMarks, mkRes, mkHist>>

mcVars == <<mcNow, mcCache, mcTimers, mcPc, mcKey>>

nrVars == <<nrFiles, nrPc, nrI, nrTask, nrFailed, nrMu, nrErrChan, nrClosed,
            nrWg, nrRet, nrCache>>

dmVars == <<dmN, dmPc, dmI, dmTask, dmLocMatched, dmLocErr, dmReported, dmMu,
            dmMatched, dmFirstErr, dmWg, dmRet>>

vars == <<fbVars, fwVars, caVars, guVars, rdVars, qcVars, scVars, mkVars,
          mcVars, nrVars, dmVars>>

\* What the actions of one stage leave alone: the other stages.
fbRest == <<fwVars, caVars, guVars, rdVars, qcVars, scVars, mkVars, mcVars,
           nrVars, dmVars>>
fwRest == <<fbVars, caVars, guVars, rdVars, qcVars, scVars, mkVars, mcVars,
           nrVars, dmVars>>
caRest == <<fbVars, fwVars, guVars, rdVars, qcVars, scVars, mkVars, mcVars,
           nrVars, dmVars>>
guRest == <<fbVars, fwVars, caVars, rdVars, qcVars, scVars, mkVars, mcVars,
           nrVars, dmVars>>
rdRest == <<fbVars, fwVars, caVars, guVars, qcVars, scVars, mkVars, mcVars,
           nrVars, dmVars>>
qcRest == <<fbVars, fwVars, caVars, guVars, rdVars, scVars, mkVars, mcVars,
           nrVars, dmVars>>
scRest == <<fbVars, fwVars, caVars, guVars, rdVars, qcVars, mkVars, mcVars,
           nrVars, dmVars>>
mkRest == <<fbVars, fwVars, caVars, guVars, rdVars, qcVars, scVars, mcVars,
           nrVars, dmVars>>
mcRest == <<fbVars, fwVars, caVars, guVars, rdVars, qcVars, scVars, mkVars,
           nrVars, dmVars>>
nrRest == <<fbVars, fwVars, caVars, guVars, rdVars, qcVars, scVars, mkVars,
           mcVars, dmVars>>
dmRest == <<fbVars, fwVars, caVars, guVars, rdVars, qcVars, scVars, mkVars,
           mcVars, nrVars>>

\* ------------------------------------------------------------------ fallback

\* The responses a branch can leave on its copy of the query context:
\* the one it was handed (*qCtxP = *qCtx), none, or one of its own.
FbBranchResp(own, handed) == {handed, Nil, own}

\* if err != nil || r == nil  (primary goroutine)
FbPrimFailedCond == pErr \/ pR = Nil

FbLoopItersMutant == 2 - 1
\* The result loop runs for i := 0; i < 2; i++
FbLoopIters == 2

\* makeDdlCtx: the outer deadline if there is one, else now + timeout.
makeDdlCtx == IF fbHasDdl THEN NoTimer ELSE now + ParallelTimeout

TimerReady(t) == t # NoTimer /\ now >= t

\* ctx.Done() of the secondary's derived context.
FbSecCtxDone == ctxDone \/ TimerReady(sDdl)

\* The ready cases of the select of a non-standby secondary.
FbSel1Ready ==
    {c \in {"primDone", "primFailed", "timer"} :
        \/ c = "primDone" /\ primDone
        \/ c = "primFailed" /\ primFailed
        \/ c = "timer" /\ TimerReady(tmr1)}

FbSel1NextMutant(c) == "exec"
\* case <-primDone: return; the other cases fall through to secondary.Exec
FbSel1Next(c) == IF c = "primDone" THEN "fin" ELSE "exec"

\* The ready cases of the select of a standby secondary holding a response.
FbSel2Ready ==
    {c \in {"ctx", "primDone", "primFailed", "timer"} :
        \/ c = "ctx" /\ FbSecCtxDone
        \/ c = "primDone" /\ primDone
        \/ c = "primFailed" /\ primFailed
        \/ c = "timer" /\ TimerReady(tmr2)}

\* The ready cases of the select of the result loop.
FbSelMReadyMutant ==
    {c \in {"resp"} : respChan # <<>> \/ respClosed}
FbSelMReady ==
    {c \in {"ctx", "resp"} :
        \/ c = "ctx" /\ ctxDone
        \/ c = "resp" /\ (respChan # <<>> \/ respClosed)}

\* A parked goroutine has a ready case: it is resumed before anything else.
FbSelPending ==
    \/ pcS = "parked1" /\ FbSel1Ready # {}
    \/ pcS = "parked2" /\ FbSel2Ready # {}
    \/ pcM = "parked" /\ FbSelMReady # {}

\* The run gives the two Exec calls fixed durations.
FbTimed == fbPDur # NoTimer

\* An Exec call that returns at time t is over; without a fixed duration it
\* returns at any time.
FbExecOver(t) == t = NoTimer \/ now >= t

\* The time a secondary.Exec that is called now returns at.
FbSecDue == IF fbSDur = NoTimer THEN NoTimer ELSE now + fbSDur

\* A goroutine of doFallback has a step to take that waits for nothing. In a
\* run with fixed durations such steps take no time: the clock stands still
\* while there is one.
FbRunnable ==
    \/ pcP \in {"notify", "send", "fin"}
    \/ pcP = "exec" /\ now >= fbPDur
    \/ pcS \in {"start", "send", "fin"}
    \/ pcS = "exec" /\ now >= sDue
    \/ pcM = "enter"
    \/ wg = 0 /\ ~respClosed

\* A branch has put a non-nil response on respChan.
FbPrimDelivered == pcP \in {"fin", "done"} /\ ~FbPrimFailedCond
FbSecDelivered == pcS \in {"fin", "done"} /\ sInvoked /\ ~sErr /\ sR # Nil

\* A branch is over: it has sent its result, or the secondary was skipped.
FbPrimFinished == pcP \in {"fin", "done"}
FbSecFinished == pcS \in {"fin", "done"}

FbStart(standby, hasDdl, r, pDur, sDur) ==
    /\ fbStandby = standby
    /\ fbHasDdl = hasDdl
    /\ fbPDur = pDur
    /\ fbSDur = sDur
    /\ now = 0
    /\ ctxDone = FALSE
    /\ qR = r
    /\ pcM = "enter"
    /\ iter = 0
    /\ fbRet = "pending"
    /\ respChan = <<>>
    /\ respClosed = FALSE
    /\ primFailed = FALSE
    /\ primDone = FALSE
    /\ pcP = "exec"
    /\ pErr = FALSE
    /\ pR = qR
    /\ pcS = "start"
    /\ sErr = FALSE
    /\ sR = qR
    /\ sInvoked = FALSE
    /\ tmr1 = NoTimer
    /\ tmr2 = NoTimer
    /\ sDdl = NoTimer
    /\ sDue = NoTimer
    /\ wg = 2
    /\ primDoneAt = NoTimer
    /\ ctxAt = "live"

\* doFallback is entered in either standby mode, with or without a deadline on
\* the caller's context, with or without a response already on qCtx.
FbInit ==
    \E standby \in BOOLEAN, hasDdl \in BOOLEAN, r \in {Nil, "R0"} :
        FbStart(standby, hasDdl, r, NoTimer, NoTimer)

\* err := f.primary.Exec(ctx, qCtxP); r := qCtxP.R()
FbPrimaryExec ==
    /\ pcP = "exec"
    /\ ~FbSelPending
    /\ FbExecOver(fbPDur)
    /\ pErr' \in BOOLEAN
    /\ pR' \in FbBranchResp("RP", pR)
    /\ pcP' = "notify"
    /\ UNCHANGED <<fbCfg, fbClock, fbMain, fbChans, fbSec, wg, fbHist>>
    /\ UNCHANGED fbRest

\* close(primFailed) or close(primDone)
FbPrimaryNotify ==
    /\ pcP = "notify"
    /\ ~FbSelPending
    /\ IF FbPrimFailedCond
         THEN primFailed' = TRUE /\ UNCHANGED <<primDone, primDoneAt>>
         ELSE primDone' = TRUE /\ primDoneAt' = now /\ UNCHANGED primFailed
    /\ pcP' = "send"
    /\ UNCHANGED <<fbCfg, fbClock, fbMain, respChan, respClosed, pErr, pR,
                   fbSec, wg, ctxAt>>
    /\ UNCHANGED fbRest

\* respChan <- nil  or  respChan <- r
FbPrimarySend ==
    /\ pcP = "send"
    /\ ~FbSelPending
    /\ respChan' = Append(respChan, IF FbPrimFailedCond THEN Nil ELSE pR)
    /\ pcP' = "fin"
    /\ UNCHANGED <<fbCfg, fbClock, fbMain, respClosed, primFailed, primDone,
                   pErr, pR, fbSec, wg, fbHist>>
    /\ UNCHANGED fbRest

\* deferred: f.qCtxPool.Put(qCtxP); wg.Done()
FbPrimaryFin ==
    /\ pcP = "fin"
    /\ ~FbSelPending
    /\ wg' = wg - 1
    /\ pcP' = "done"
    /\ UNCHANGED <<fbCfg, fbClock, fbMain, fbChans, pErr, pR, fbSec,
                   fbHist>>
    /\ UNCHANGED fbRest

\* The secondary goroutine starts: in standby mode it calls secondary.Exec at
\* once, otherwise it enters the select on primDone / primFailed / time.After.
FbSecondaryStart ==
    /\ pcS = "start"
    /\ ~FbSelPending
    /\ IF fbStandby
         THEN /\ pcS' = "exec"
              /\ sInvoked' = TRUE
              /\ sDdl' = makeDdlCtx
              /\ sDue' = FbSecDue
              /\ UNCHANGED tmr1
         ELSE IF FbSel1Ready # {}
           THEN \E c \in FbSel1Ready :
                  /\ pcS' = FbSel1Next(c)
                  /\ sInvoked' = (FbSel1Next(c) = "exec")
                  /\ sDdl' = IF FbSel1Next(c) = "exec" THEN makeDdlCtx ELSE sDdl
                  /\ sDue' = IF FbSel1Next(c) = "exec" THEN FbSecDue ELSE sDue
                  /\ UNCHANGED tmr1
           ELSE /\ pcS' = "parked1"
                /\ tmr1' = now + Threshold
                /\ UNCHANGED <<sInvoked, sDdl, sDue>>
    /\ UNCHANGED <<fbCfg, fbClock, fbMain, fbChans, fbPrim, sErr, sR, tmr2, wg,
                   fbHist>>
    /\ UNCHANGED fbRest

\* The parked non-standby secondary is woken by the first ready case.
FbSecondaryWake1 ==
    /\ pcS = "parked1"
    /\ \E c \in FbSel1Ready :
         /\ pcS' = FbSel1Next(c)
         /\ sInvoked' = (FbSel1Next(c) = "exec")
         /\ sDdl' = IF FbSel1Next(c) = "exec" THEN makeDdlCtx ELSE sDdl
         /\ sDue' = IF FbSel1Next(c) = "exec" THEN FbSecDue ELSE sDue
    /\ UNCHANGED <<fbCfg, fbClock, fbMain, fbChans, fbPrim, sErr, sR, tmr1,
                   tmr2, wg, fbHist>>
    /\ UNCHANGED fbRest

\* err := f.secondary.Exec(ctx, qCtxS); on an error nil is sent. Otherwise
\* r := qCtxS.R(), and a standby secondary holding a response enters the select
\* on ctx.Done / primDone / primFailed / time.After.
FbSecondaryExec ==
    /\ pcS = "exec"
    /\ ~FbSelPending
    /\ FbExecOver(sDue)
    /\ sErr' \in BOOLEAN
    /\ sR' \in FbBranchResp("RS", sR)
    /\ IF ~sErr' /\ fbStandby /\ sR' # Nil /\ FbSel2Ready = {}
         THEN pcS' = "parked2" /\ tmr2' = now + Threshold
         ELSE pcS' = "send" /\ UNCHANGED tmr2
    /\ UNCHANGED <<fbCfg, fbClock, fbMain, fbChans, fbPrim, sInvoked, tmr1,
                   sDdl, sDue, wg, fbHist>>
    /\ UNCHANGED fbRest

\* The parked standby secondary is woken by the first ready case.
FbSecondaryWake2 ==
    /\ pcS = "parked2"
    /\ FbSel2Ready # {}
    /\ pcS' = "send"
    /\ UNCHANGED <<fbCfg, fbClock, fbMain, fbChans, fbPrim, sErr, sR, sInvoked,
                   tmr1, tmr2, sDdl, sDue, wg, fbHist>>
    /\ UNCHANGED fbRest

FbSecSendValMutant == Nil
\* respChan <- nil after an error, respChan <- r otherwise
FbSecSendVal == IF sErr THEN Nil ELSE sR

FbSecondarySend ==
    /\ pcS = "send"
    /\ ~FbSelPending
    /\ respChan' = Append(respChan, FbSecSendVal)
    /\ pcS' = "fin"
    /\ UNCHANGED <<fbCfg, fbClock, fbMain, respClosed, primFailed, primDone,
                   fbPrim, sErr, sR, sInvoked, tmr1, tmr2, sDdl, sDue, wg,
                   fbHist>>
    /\ UNCHANGED fbRest

\* deferred: f.qCtxPool.Put(qCtxS); wg.Done()
FbSecondaryFin ==
    /\ pcS = "fin"
    /\ ~FbSelPending
    /\ wg' = wg - 1
    /\ pcS' = "done"
    /\ UNCHANGED <<fbCfg, fbClock, fbMain, fbChans, fbPrim, sErr, sR, sInvoked,
                   tmr1, tmr2, sDdl, sDue, fbHist>>
    /\ UNCHANGED fbRest

\* go func() { wg.Wait(); close(respChan) }()
FbCloser ==
    /\ wg = 0
    /\ ~respClosed
    /\ ~FbSelPending
    /\ respClosed' = TRUE
    /\ UNCHANGED <<fbCfg, fbClock, fbMain, respChan, primFailed, primDone,
                   fbPrim, fbSec, wg, fbHist>>
    /\ UNCHANGED fbRest

\* One case of the result loop's select is taken.
FbMainTake(c) ==
    IF c = "ctx"
      THEN \* return context.Cause(ctx)
           /\ fbRet' = "cause"
           /\ pcM' = "ret"
           /\ UNCHANGED <<qR, iter, respChan>>
      ELSE LET r == IF respChan # <<>> THEN Head(respChan) ELSE Nil IN
           /\ respChan' = IF respChan # <<>> THEN Tail(respChan) ELSE respChan
           /\ IF r = Nil
                THEN \* continue; after the last iteration return ErrFailed
                     /\ iter' = iter + 1
                     /\ UNCHANGED qR
                     /\ IF iter + 1 >= FbLoopIters
                          THEN fbRet' = "ErrFailed" /\ pcM' = "ret"
                          ELSE fbRet' = fbRet /\ pcM' = "enter"
                ELSE \* qCtx.SetResponse(r); return nil
                     /\ qR' = r
                     /\ fbRet' = "ok"
                     /\ pcM' = "ret"
                     /\ UNCHANGED iter

\* The waiter enters the select: a ready case is taken, else it parks.
FbMainEnter ==
    /\ pcM = "enter"
    /\ ~FbSelPending
    /\ IF FbSelMReady # {}
         THEN \E c \in FbSelMReady : FbMainTake(c)
         ELSE pcM' = "parked" /\ UNCHANGED <<qR, iter, fbRet, respChan>>
    /\ UNCHANGED <<fbCfg, fbClock, respClosed, primFailed, primDone, fbPrim,
                   fbSec, wg, fbHist>>
    /\ UNCHANGED fbRest

\* The parked waiter is woken by the first ready case.
FbMainWake ==
    /\ pcM = "parked"
    /\ \E c \in FbSelMReady : FbMainTake(c)
    /\ UNCHANGED <<fbCfg, fbClock, respClosed, primFailed, primDone, fbPrim,
                   fbSec, wg, fbHist>>
    /\ UNCHANGED fbRest

\* The outer request is cancelled or its deadline passes.
FbCancelCtx ==
    /\ ~ctxDone
    /\ ~FbSelPending
    /\ ctxDone' = TRUE
    /\ ctxAt' = IF fbRet # "pending" THEN "returned"
                ELSE IF pcM = "parked" THEN "parked"
                ELSE IF FbPrimDelivered \/ FbSecDelivered THEN "delivered"
                ELSE "first"
    /\ UNCHANGED <<fbCfg, now, fbMain, fbChans, fbPrim, fbSec, wg, primDoneAt>>
    /\ UNCHANGED fbRest

\* Time passes.
FbTick ==
    /\ now < MaxTime
    /\ ~FbSelPending
    /\ FbTimed => ~FbRunnable
    /\ now' = now + 1
    /\ UNCHANGED <<fbCfg, ctxDone, fbMain, fbChans, fbPrim, fbSec, wg,
                   fbHist>>
    /\ UNCHANGED fbRest

FbNext ==
    \/ FbPrimaryExec
    \/ FbPrimaryNotify
    \/ FbPrimarySend
    \/ FbPrimaryFin
    \/ FbSecondaryStart
    \/ FbSecondaryWake1
    \/ FbSecondaryExec
    \/ FbSecondaryWake2
    \/ FbSecondarySend
    \/ FbSecondaryFin
    \/ FbCloser
    \/ FbMainEnter
    \/ FbMainWake
    \/ FbCancelCtx
    \/ FbTick

\* ------------------------------------------------------- fallback: claims

\* The secondary returned a usable result: no error and a non-nil response.
FbSecSucceeded ==
    /\ pcS \in {"parked2", "send", "fin", "done"}
    /\ sInvoked /\ ~sErr /\ sR # Nil

\* doFallback returns in this step.
FbReturning == fbRet = "pending" /\ fbRet' # "pending"

\* Both branches are over and neither put a non-nil response on respChan.
FbBothFinishedNoResp ==
    /\ FbPrimFinished /\ FbSecFinished
    /\ ~FbPrimDelivered /\ ~FbSecDelivered

\* C2: without always-standby, when the primary completes successfully before
\* the threshold timer of the secondary's select has elapsed, secondary.Exec is
\* never invoked.
C2_SecondaryNeverLaunched ==
    (~fbStandby /\ primDone /\ (tmr1 = NoTimer \/ primDoneAt < tmr1))
        => ~sInvoked

\* C2 witness: the secondary was parked on its select, the primary succeeded
\* before the timer, the secondary returned without running and doFallback
\* returned the primary's response.
C2_Witness ==
    /\ ~fbStandby /\ primDone /\ tmr1 # NoTimer /\ primDoneAt < tmr1
    /\ primDoneAt > 0
    /\ pcS = "done" /\ ~sInvoked
    /\ fbRet = "ok" /\ qR = "RP"

\* C3: in both modes, once the primary has failed and the secondary has
\* succeeded with a non-nil response, a doFallback that has returned with the
\* outer context still live returned nil and set exactly the secondary's
\* response on the caller's context.
C3_SecondaryResultOnPrimaryFailure ==
    (primFailed /\ FbSecSucceeded /\ ~ctxDone /\ fbRet # "pending")
        => (fbRet = "ok" /\ qR = sR)

\* C3 witness: standby mode, the primary failed, the secondary's own response
\* was set on the caller's context.
C3_Witness ==
    /\ fbStandby /\ primFailed /\ FbSecSucceeded /\ ~ctxDone
    /\ fbRet = "ok" /\ qR = "RS" /\ sR = "RS"

\* C5 (the claim as stated): in always-standby mode, whenever the primary
\* succeeds before the threshold, the response doFallback sets on the caller's
\* context is the primary's, never the secondary's.
C5_PrimaryWinsBeforeThreshold ==
    (fbStandby /\ primDone /\ primDoneAt < Threshold /\ fbRet = "ok")
        => qR = pR

\* C9 (the claim as stated): doFallback returns ErrFailed if and only if, when
\* it returns, both branches are over and neither delivered a non-nil response.
C9_ErrFailedIff ==
    [][FbReturning => ((fbRet' = "ErrFailed") <=> FbBothFinishedNoResp')]_vars

\* C9 (amended): doFallback returns ErrFailed only when both branches are over
\* and neither delivered a non-nil response; when it returns in that situation
\* it returns ErrFailed, or the cancellation cause if the outer context is done.
C9_ErrFailedOnlyWhenExhausted ==
    [][FbReturning =>
        /\ (fbRet' = "ErrFailed" => FbBothFinishedNoResp')
        /\ (FbBothFinishedNoResp' =>
               (fbRet' = "ErrFailed" \/ (fbRet' = "cause" /\ ctxDone')))]_vars

\* C9 witness: both branches failed and doFallback returned ErrFailed.
C9_Witness ==
    /\ fbRet = "ErrFailed" /\ FbBothFinishedNoResp /\ sInvoked /\ ~ctxDone

\* C10 (the claim as stated): if the outer context is done before any non-nil
\* branch result has been delivered, doFallback returns the cancellation cause.
C10_CauseWheneverCtxFirst ==
    (ctxAt \in {"parked", "first"} /\ fbRet # "pending") => fbRet = "cause"

\* C10 (amended): if the outer context becomes done while the waiter is blocked
\* in its select (no branch result available), doFallback returns the
\* cancellation cause as its next step, without waiting for the branches; and
\* the cancellation cause is returned only when the outer context is done.
C10_CauseWhenBlocked ==
    /\ ctxAt = "parked" =>
          (fbRet = "cause" \/ (fbRet = "pending" /\ pcM = "parked"))
    /\ fbRet = "cause" => ctxDone

\* C10 witness: cancelled while blocked with both branches still running;
\* doFallback has returned the cause and the branches have not finished.
C10_Witness ==
    /\ ctxAt = "parked" /\ fbRet = "cause"
    /\ pcP = "exec" /\ pcS \in {"exec", "parked1"}

\* The first non-nil value of a sequence of results, Nil if there is none.
RECURSIVE FirstNonNil(_)
FirstNonNil(ch) ==
    IF ch = <<>> THEN Nil
    ELSE IF Head(ch) # Nil THEN Head(ch) ELSE FirstNonNil(Tail(ch))

\* Both branches' non-nil results are waiting in respChan.
FbBothReady ==
    /\ Len(respChan) = 2 /\ respChan[1] # Nil /\ respChan[2] # Nil
    /\ ~FbPrimFailedCond

\* C22: the response doFallback returns with is the first non-nil result that
\* became available, and when the non-nil results of both branches are
\* available at the moment the waiter picks one, it is the primary's.
C22_FirstResultPrimaryPreferred ==
    [][(FbReturning /\ fbRet' = "ok") =>
          /\ qR' = FirstNonNil(respChan)
          /\ FbBothReady => qR' = pR]_vars

\* The scenario: the threshold is 100ms, the primary takes 300ms, the
\* secondary takes 50ms.
FbScenario == fbPDur = 3 * Threshold /\ 2 * fbSDur = Threshold

maxConcurrentQueries == 10

Upstreams == 1..MaxUpstreams

\* What queryUpstream can come to: a non-empty answer, an empty answer
\* (handleResponse: "no answer"), or an error of getUpstream or Exchange.
FwOutcomes == {"answer", "empty", "err"}

\* The values of Args.Concurrent (yaml "concurrent"); 0 when it is left out.
FwConcurrentArgs == {0, 1, 2}

FwStart(n, concurrent) ==
    /\ fwN = n
    /\ fwConcurrent = concurrent
    /\ fwPc = "loop"
    /\ fwI = 1
    /\ fwSem = 0
    /\ fwWg = 0
    /\ fwCloser = FALSE
    /\ fwTask = [u \in Upstreams |-> "none"]
    /\ fwOutcome = [u \in Upstreams |-> "none"]
    /\ fwErrCh = <<>>
    /\ fwErrClosed = FALSE
    /\ fwCtxDone = FALSE
    /\ fwAnswer = 0
    /\ fwRet = "pending"
    /\ fwRetErr = 0

FwInit == \E n \in 0..MaxUpstreams, c \in FwConcurrentArgs : FwStart(n, c)

\* The ready cases of the select that waits for a result.
FwSelReady ==
    {c \in {"errCh", "ctx"} :
        \/ c = "errCh" /\ (fwErrCh # <<>> \/ fwErrClosed)
        \/ c = "ctx" /\ fwCtxDone}

FwSelPending == fwPc = "parked" /\ FwSelReady # {}

\* case sem <- struct{}{}: wg.Add(1); go func(us) {...}(us)
FwDispatch ==
    /\ fwPc = "loop"
    /\ fwI <= fwN
    /\ fwSem < maxConcurrentQueries
    /\ fwSem' = fwSem + 1
    /\ fwWg' = fwWg + 1
    /\ fwTask' = [fwTask EXCEPT ![fwI] = "run"]
    /\ fwI' = fwI + 1
    /\ UNCHANGED <<fwN, fwConcurrent, fwPc, fwCloser, fwOutcome, fwErrCh, fwErrClosed,
                   fwCtxDone, fwAnswer, fwRet, fwRetErr>>
    /\ UNCHANGED fwRest

\* case <-ctx.Done(): return ctx.Err()   (in the dispatch loop)
FwLoopCtx ==
    /\ fwPc = "loop"
    /\ fwI <= fwN
    /\ fwCtxDone
    /\ fwPc' = "ret"
    /\ fwRet' = "ctxerr"
    /\ UNCHANGED <<fwN, fwConcurrent, fwI, fwSem, fwWg, fwCloser, fwTask, fwOutcome, fwErrCh,
                   fwErrClosed, fwCtxDone, fwAnswer, fwRetErr>>
    /\ UNCHANGED fwRest

\* The loop is over: go func() { wg.Wait(); close(errCh) }()
FwLoopEnd ==
    /\ fwPc = "loop"
    /\ fwI > fwN
    /\ fwCloser' = TRUE
    /\ fwPc' = "enter"
    /\ UNCHANGED <<fwN, fwConcurrent, fwI, fwSem, fwWg, fwTask, fwOutcome, fwErrCh,
                   fwErrClosed, fwCtxDone, fwAnswer, fwRet, fwRetErr>>
    /\ UNCHANGED fwRest

\* err := f.queryUpstream(ctx, us, qCtx); if err != nil { errCh <- err }
\* handleResponse: an empty answer is an error, else qCtx.SetAnswer(resp.Answer).
FwQuery(u) ==
    /\ fwTask[u] = "run"
    /\ ~FwSelPending
    /\ \E o \in FwOutcomes :
         /\ fwOutcome' = [fwOutcome EXCEPT ![u] = o]
         /\ IF o = "answer"
              THEN fwAnswer' = u /\ UNCHANGED fwErrCh
              ELSE fwErrCh' = Append(fwErrCh, u) /\ UNCHANGED fwAnswer
    /\ fwTask' = [fwTask EXCEPT ![u] = "fin"]
    /\ UNCHANGED <<fwN, fwConcurrent, fwPc, fwI, fwSem, fwWg, fwCloser, fwErrClosed,
                   fwCtxDone, fwRet, fwRetErr>>
    /\ UNCHANGED fwRest

\* deferred: <-sem; wg.Done()
FwRelease(u) ==
    /\ fwTask[u] = "fin"
    /\ ~FwSelPending
    /\ fwSem' = fwSem - 1
    /\ fwWg' = fwWg - 1
    /\ fwTask' = [fwTask EXCEPT ![u] = "done"]
    /\ UNCHANGED <<fwN, fwConcurrent, fwPc, fwI, fwCloser, fwOutcome, fwErrCh, fwErrClosed,
                   fwCtxDone, fwAnswer, fwRet, fwRetErr>>
    /\ UNCHANGED fwRest

\* wg.Wait(); close(errCh)
FwClose ==
    /\ fwCloser
    /\ fwWg = 0
    /\ ~fwErrClosed
    /\ ~FwSelPending
    /\ fwErrClosed' = TRUE
    /\ UNCHANGED <<fwN, fwConcurrent, fwPc, fwI, fwSem, fwWg, fwCloser, fwTask, fwOutcome,
                   fwErrCh, fwCtxDone, fwAnswer, fwRet, fwRetErr>>
    /\ UNCHANGED fwRest

\* One case of the waiting select is taken:
\* case err := <-errCh: return err;  case <-ctx.Done(): return ctx.Err()
FwTake(c) ==
    /\ fwPc' = "ret"
    /\ IF c = "ctx"
         THEN fwRet' = "ctxerr" /\ UNCHANGED <<fwErrCh, fwRetErr>>
         ELSE IF fwErrCh # <<>>
           THEN /\ fwRet' = "uperr"
                /\ fwRetErr' = Head(fwErrCh)
                /\ fwErrCh' = Tail(fwErrCh)
           ELSE \* the channel is closed and empty: err is nil
                fwRet' = "nil" /\ UNCHANGED <<fwErrCh, fwRetErr>>

\* Exec enters the waiting select: a ready case is taken, else it parks.
FwWaitEnter ==
    /\ fwPc = "enter"
    /\ IF FwSelReady # {}
         THEN \E c \in FwSelReady : FwTake(c)
         ELSE fwPc' = "parked" /\ UNCHANGED <<fwRet, fwErrCh, fwRetErr>>
    /\ UNCHANGED <<fwN, fwConcurrent, fwI, fwSem, fwWg, fwCloser, fwTask, fwOutcome,
                   fwErrClosed, fwCtxDone, fwAnswer>>
    /\ UNCHANGED fwRest

\* The parked Exec is woken by the first ready case.
FwWaitWake ==
    /\ fwPc = "parked"
    /\ \E c \in FwSelReady : FwTake(c)
    /\ UNCHANGED <<fwN, fwConcurrent, fwI, fwSem, fwWg, fwCloser, fwTask, fwOutcome,
                   fwErrClosed, fwCtxDone, fwAnswer>>
    /\ UNCHANGED fwRest

\* The request's context is cancelled or its deadline passes.
FwCancelCtx ==
    /\ ~fwCtxDone
    /\ ~FwSelPending
    /\ fwCtxDone' = TRUE
    /\ UNCHANGED <<fwN, fwConcurrent, fwPc, fwI, fwSem, fwWg, fwCloser, fwTask, fwOutcome,
                   fwErrCh, fwErrClosed, fwAnswer, fwRet, fwRetErr>>
    /\ UNCHANGED fwRest

FwNext ==
    \/ FwDispatch
    \/ FwLoopCtx
    \/ FwLoopEnd
    \/ \E u \in Upstreams : FwQuery(u)
    \/ \E u \in Upstreams : FwRelease(u)
    \/ FwClose
    \/ FwWaitEnter
    \/ FwWaitWake
    \/ FwCancelCtx


\* -------------------------------------------------------- forward: claims

\* Every configured upstream has been dispatched and has come to its outcome.
FwAllAnswered == \A u \in 1..fwN : fwOutcome[u] # "none"

\* The upstreams that returned a non-empty answer.
FwWinners == {u \in 1..fwN : fwOutcome[u] = "answer"}

\* C4 (the claim as stated): when exactly one of the N dispatched upstreams
\* returns a non-empty answer and the others fail, Exec returns no error and
\* the query context carries that upstream's answer.
C4_OneAnswerIsEnough ==
    (fwN >= 1 /\ FwAllAnswered /\ Cardinality(FwWinners) = 1
        /\ ~fwCtxDone /\ fwRet # "pending")
        => (fwRet = "nil" /\ fwAnswer \in FwWinners)

\* The dispatches that hold a slot and have not come to an outcome yet.
FwInFlight == {u \in 1..fwN : fwTask[u] = "run"}

\* The context a dispatch runs on is done: queryUpstream derives it from the
\* ctx Exec was called with (context.WithTimeout(ctx, queryTimeout)), and Exec
\* has no cancel function of its own, so before the dispatch's own timeout
\* only the caller's context ends it.
FwQueryCtxDone(u) == fwCtxDone

\* The cap a configuration asks for: Args.Concurrent, 10 when it is left out.
FwConfiguredCap ==
    IF fwConcurrent = 0 THEN maxConcurrentQueries ELSE fwConcurrent

\* The dispatches that hold a slot of sem.
FwSlotHolders == {u \in 1..fwN : fwTask[u] \in {"run", "fin"}}

\* C11: once an upstream has returned a non-empty answer, the dispatches still
\* in flight to the other upstreams have their contexts cancelled.
C11_LosersCancelled ==
    FwWinners # {} => \A u \in FwInFlight : FwQueryCtxDone(u)

\* C12: Exec returns as soon as the first upstream has returned a non-empty
\* answer: an Exec that is blocked in its waiting select when there is a
\* winner has a case to resume with.
C12_ReturnsOnFirstSuccess ==
    (FwWinners # {} /\ fwPc = "parked") => FwSelReady # {}

\* C13: the answer of the query context is written by at most one dispatch.
C13_AtMostOneWriter == Cardinality(FwWinners) <= 1

\* C14: the dispatches that hold a slot are the slots taken, and they are at
\* most the configured concurrency cap.
C14_SlotsWithinConfiguredCap ==
    /\ Cardinality(FwSlotHolders) = fwSem
    /\ fwSem <= FwConfiguredCap

\* C28: if Exec returns no error, the query context carries a non-empty
\* answer obtained from one of the configured upstreams, for every number of
\* configured upstreams, zero included.
C28_NilMeansAnswer == fwRet = "nil" => fwAnswer \in FwWinners

\* Exec has returned: with nil, with an upstream's error or with ctx.Err().
FwReturned == fwPc = "ret"

\* C29: after Exec has returned, no dispatch writes to the query context any
\* more: the answer of the query context stays as it was at the return.
C29_NoWriteAfterReturn == [][FwReturned => fwAnswer' = fwAnswer]_vars

\* ------------------------------------------------- forward: getUpstream

\* The concurrent callers of getUpstream and the addresses they ask for.
Callers == 1..MaxCallers
Addrs == {"a1", "a2"}

\* No handle: a nil *upstream.Upstream, an address without an entry.
NoHandle == [addr |-> "none", serial |-> 0]

\* getUpstream returned an error (upstream.NewUpstream failed).
ErrHandle == [addr |-> "err", serial |-> 0]

MuFreeMutant == TRUE
\* f.mu.Lock() goes through when nobody holds the mutex.
MuFree == mu = 0

GuStart ==
    /\ upstreamCache = [a \in Addrs |-> NoHandle]
    /\ mu = 0
    /\ guPc = [c \in Callers |-> "idle"]
    /\ guAddr = [c \in Callers |-> "none"]
    /\ guUp = [c \in Callers |-> NoHandle]
    /\ guCreated = [a \in Addrs |-> 0]

\* getUpstream(us): f.mu.Lock(); defer f.mu.Unlock()
GuLock(c, a) ==
    /\ guPc[c] = "idle"
    /\ MuFree
    /\ mu' = c
    /\ guAddr' = [guAddr EXCEPT ![c] = a]
    /\ guPc' = [guPc EXCEPT ![c] = "lookup"]
    /\ UNCHANGED <<upstreamCache, guUp, guCreated>>
    /\ UNCHANGED guRest

\* if up, ok := f.upstreamCache[us.Addr]; ok { return up, nil }
GuLookup(c) ==
    /\ guPc[c] = "lookup"
    /\ IF upstreamCache[guAddr[c]] # NoHandle
         THEN /\ guUp' = [guUp EXCEPT ![c] = upstreamCache[guAddr[c]]]
              /\ guPc' = [guPc EXCEPT ![c] = "done"]
              /\ mu' = 0
         ELSE /\ guPc' = [guPc EXCEPT ![c] = "create"]
              /\ UNCHANGED <<guUp, mu>>
    /\ UNCHANGED <<upstreamCache, guAddr, guCreated>>
    /\ UNCHANGED guRest

\* up, err := upstream.NewUpstream(...); if err != nil { return nil, err }
\* f.upstreamCache[us.Addr] = up; return up, nil
GuCreate(c) ==
    /\ guPc[c] = "create"
    /\ \E ok \in BOOLEAN :
         IF ok
           THEN LET a == guAddr[c]
                    up == [addr |-> a, serial |-> guCreated[a] + 1] IN
                /\ guCreated' = [guCreated EXCEPT ![a] = @ + 1]
                /\ upstreamCache' = [upstreamCache EXCEPT ![a] = up]
                /\ guUp' = [guUp EXCEPT ![c] = up]
           ELSE /\ guUp' = [guUp EXCEPT ![c] = ErrHandle]
                /\ UNCHANGED <<upstreamCache, guCreated>>
    /\ guPc' = [guPc EXCEPT ![c] = "done"]
    /\ mu' = 0
    /\ UNCHANGED guAddr
    /\ UNCHANGED guRest

GuNext ==
    \/ \E c \in Callers, a \in Addrs : GuLock(c, a)
    \/ \E c \in Callers : GuLookup(c)
    \/ \E c \in Callers : GuCreate(c)

\* The callers that have a handle from getUpstream.
GuServed == {c \in Callers : guPc[c] = "done" /\ guUp[c] # ErrHandle}

\* C15: the table holds at most one live handle per address, a handle is
\* created at most once per address once creation has succeeded, and all
\* callers that ask for the same address get the same handle.
C15_OneSharedHandlePerAddress ==
    /\ \A a \in Addrs : guCreated[a] <= 1
    /\ \A a \in Addrs :
         upstreamCache[a] # NoHandle => upstreamCache[a] = [addr |-> a, serial |-> 1]
    /\ \A c \in GuServed : guUp[c] = upstreamCache[guAddr[c]]
    /\ \A c1, c2 \in GuServed : guAddr[c1] = guAddr[c2] => guUp[c1] = guUp[c2]

C15_Witness ==
    \E c1, c2, c3 \in Callers :
        /\ c1 # c2 /\ {c1, c2} \subseteq GuServed /\ guAddr[c1] = guAddr[c2]
        /\ guPc[c3] = "done" /\ guAddr[c3] = guAddr[c1] /\ guUp[c3] = ErrHandle

\* ----------------------------------------------------------------- redirect

RdNames == {"a.com.", "b.com.", "t.com."}
NoTarget == "none"

\* A question of a message, and the request messages.
RdQuestion(n, c) == [name |-> n, qclass |-> c]
RdRequests ==
    { [question |-> <<RdQuestion("a.com.", "IN")>>],
      [question |-> <<RdQuestion("b.com.", "IN")>>],
      [question |-> <<RdQuestion("a.com.", "CH")>>],
      [question |-> <<RdQuestion("a.com.", "IN"), RdQuestion("b.com.", "IN")>>],
      [question |-> <<>>] }
NoMsg == [question |-> <<>>, answer |-> <<"none">>]

\* The rule sets: what r.m.Match gives for a name.
RdRuleSets ==
    { [n \in RdNames |-> NoTarget],
      [n \in RdNames |-> IF n = "a.com." THEN "t.com." ELSE NoTarget],
      [n \in RdNames |-> IF n = "a.com." THEN "t.com."
                         ELSE IF n = "b.com." THEN "a.com." ELSE NoTarget] }

\* Resource records: the address records next answers with, and
\* &dns.CNAME{Hdr: {Name: orgQName, Rrtype: TypeCNAME, Class: ClassINET,
\*                  Ttl: 1}, Target: redirectTarget}
RdAddr(n, d) ==
    [name |-> n, rrtype |-> "A", class |-> "IN", ttl |-> 60, data |-> d]
RdCNAME(org, target) ==
    [name |-> org, rrtype |-> "CNAME", class |-> "IN", ttl |-> 1, data |-> target]

\* len(q.Question) != 1 || q.Question[0].Qclass != dns.ClassINET
RdSingleINET(q) == Len(q.question) = 1 /\ q.question[1].qclass = "IN"

\* redirectTarget, ok := r.getCache(orgQName);
\* if !ok { redirectTarget, ok = r.m.Match(orgQName) }
RdLookup(org) == IF rdCache[org] # NoTarget THEN rdCache[org] ELSE rdMatch[org]

RdRestoreQuestionMutant(qs, target, org) == qs
\* for i := range r.Question { if r.Question[i].Name == redirectTarget
\*                               { r.Question[i].Name = orgQName } }
RdRestoreQuestion(qs, target, org) ==
    [i \in DOMAIN qs |-> IF qs[i] = target THEN org ELSE qs[i]]

\* newAns = append(newAns, &dns.CNAME{...}); newAns = append(newAns, r.Answer...)
RdInsertCNAME(ans, org, target) == <<RdCNAME(org, target)>> \o ans

\* What next can leave on the context for the query it is given: nothing, or
\* a response whose question section echoes the query's or names another
\* name, with zero to two answer records in either order.
RdNextResps(q) ==
    LET qn == IF Len(q.question) >= 1 THEN q.question[1].name ELSE "b.com."
        a1 == RdAddr(qn, "1.1.1.1")
        a2 == RdAddr(qn, "2.2.2.2") IN
    {NoMsg} \cup
    { [question |-> qs, answer |-> as] :
        qs \in {<<qn>>, <<"b.com.">>},
        as \in {<<>>, <<a1>>, <<a1, a2>>, <<a2, a1>>} }

\* What next can do to the request it is given: leave it as it is, or give
\* its question another name (the question section keeps its length).
RdNextReqs(q) ==
    {q} \cup IF Len(q.question) >= 1
               THEN {[q EXCEPT !.question[1].name = "b.com."]}
               ELSE {}

RdRestoreNameMutant(q, org) == q
\* defer func() { q.Question[0].Name = orgQName }()
RdRestoreName(q, org) == [q EXCEPT !.question[1].name = org]

RdStart(rules) ==
    /\ rdMatch = rules
    /\ rdCache = [n \in RdNames |-> NoTarget]
    /\ rdPc = "idle"
    /\ rdQ = [question |-> <<>>]
    /\ rdQ0 = [question |-> <<>>]
    /\ rdOrg = NoTarget
    /\ rdTarget = NoTarget
    /\ rdNextR = NoMsg
    /\ rdNextQ = [question |-> <<>>]
    /\ rdR = NoMsg
    /\ rdRet = "pending"

RdInit == \E rules \in RdRuleSets : RdStart(rules)

\* Exec up to the call of next: the request is passed through as it is, or
\* its question name is rewritten (and the match is memoised by setCache).
RdExecBegin(q) ==
    /\ rdPc = "idle"
    /\ rdQ0' = q
    /\ IF ~RdSingleINET(q)
         THEN /\ rdQ' = q
              /\ rdOrg' = NoTarget
              /\ rdTarget' = NoTarget
              /\ UNCHANGED rdCache
         ELSE LET org == q.question[1].name
                  target == RdLookup(org) IN
              /\ rdOrg' = org
              /\ rdTarget' = target
              /\ rdCache' = IF target # NoTarget
                              THEN [rdCache EXCEPT ![org] = target]
                              ELSE rdCache
              /\ rdQ' = IF target # NoTarget
                          THEN [q EXCEPT !.question[1].name = target]
                          ELSE q
    /\ rdPc' = "next"
    /\ UNCHANGED <<rdMatch, rdNextR, rdNextQ, rdR, rdRet>>
    /\ UNCHANGED rdRest

\* err := next.ExecNext(ctx, qCtx) returns; for a rewritten request the
\* response is patched and the deferred function restores the request's name.
RdExecEnd ==
    /\ rdPc = "next"
    /\ \E resp \in RdNextResps(rdQ), e \in {"nil", "err"}, nq \in RdNextReqs(rdQ) :
         /\ rdNextR' = resp
         /\ rdNextQ' = nq
         /\ rdRet' = e
         /\ IF rdTarget = NoTarget
              THEN rdR' = resp /\ rdQ' = nq
              ELSE /\ rdR' = IF resp # NoMsg
                               THEN [question |-> RdRestoreQuestion(resp.question, rdTarget, rdOrg),
                                     answer |-> RdInsertCNAME(resp.answer, rdOrg, rdTarget)]
                               ELSE NoMsg
                   /\ rdQ' = RdRestoreName(nq, rdOrg)
    /\ rdPc' = "done"
    /\ UNCHANGED <<rdMatch, rdCache, rdQ0, rdOrg, rdTarget>>
    /\ UNCHANGED rdRest

\* The next request arrives.
RdAgain ==
    /\ rdPc = "done"
    /\ rdPc' = "idle"
    /\ rdQ' = [question |-> <<>>]
    /\ rdQ0' = [question |-> <<>>]
    /\ rdOrg' = NoTarget
    /\ rdTarget' = NoTarget
    /\ rdNextR' = NoMsg
    /\ rdNextQ' = [question |-> <<>>]
    /\ rdR' = NoMsg
    /\ rdRet' = "pending"
    /\ UNCHANGED <<rdMatch, rdCache>>
    /\ UNCHANGED rdRest

RdNext ==
    \/ \E q \in RdRequests : RdExecBegin(q)
    \/ RdExecEnd
    \/ RdAgain

\* Exec has returned for a single-question INET request that matched a rule
\* and next left a response for the rewritten name.
RdRoundTrip ==
    /\ rdPc = "done"
    /\ RdSingleINET(rdQ0)
    /\ rdTarget # NoTarget
    /\ rdNextR # NoMsg
    /\ rdNextR.question = <<rdTarget>>

\* C16: after Exec on a matching single-question INET request, with next
\* producing a response for the rewritten name, the response's question name is
\* the original name and its answer section is one CNAME record from the
\* original name to the rewritten name followed by next's records in order.
C16_RedirectRoundTrip ==
    RdRoundTrip =>
        /\ rdOrg = rdQ0.question[1].name
        /\ rdTarget = RdLookup(rdOrg)
        /\ rdR.question = <<rdOrg>>
        /\ rdR.answer = <<RdCNAME(rdOrg, rdTarget)>> \o rdNextR.answer

C16_Witness ==
    /\ RdRoundTrip
    /\ rdOrg = "a.com." /\ rdTarget = "t.com."
    /\ rdR.question = <<"a.com.">>
    /\ Len(rdR.answer) = 3
    /\ rdR.answer[2].data = "2.2.2.2"

\* Exec passes the request through: it is not a single-question INET request
\* or its name matches no rule.
RdPassThrough ==
    \/ ~RdSingleINET(rdQ0)
    \/ rdMatch[rdQ0.question[1].name] = NoTarget

\* C32: Exec leaves the request unchanged on return. For a request it
\* rewrites, the request is the original one again after Exec has returned,
\* whatever next did with the name and whether next returned an error, a
\* response or nothing. A request that matches no rule, or is not a
\* single-question INET request, and its response are as next left them.
C32_RequestUnchangedOnReturn ==
    rdPc = "done" =>
        /\ RdPassThrough <=> rdTarget = NoTarget
        /\ ~RdPassThrough => rdQ = rdQ0
        /\ RdPassThrough => (rdQ = rdNextQ /\ rdR = rdNextR)

C32_Witness ==
    /\ rdPc = "done"
    /\ rdTarget = "t.com."
    /\ rdNextQ.question[1].name = "b.com."
    /\ rdNextR = NoMsg
    /\ rdRet = "err"
    /\ rdQ.question[1].name = "a.com."

\* ------------------------------------------- fallback: the context copies

\* The branches of doFallback and the context each one works on.
QcBranches == {"P", "S"}
QcCopyOf(b) == IF b = "P" THEN "qCtxP" ELSE "qCtxS"
QcOther(b) == IF b = "P" THEN "S" ELSE "P"

\* The dns.Msg objects of a run: the request, a response that is on qCtx when
\* doFallback is entered, the responses the branches make; NilMsg is no object.
NilMsg == "nil"
QcAddrs == {"q", "r0", "rP", "rS"}
QcNewResp(b) == IF b = "P" THEN "rP" ELSE "rS"

\* A query context: the request message and the response it points to.
QcNoCtx == [q |-> NilMsg, r |-> NilMsg]

\* The names a Redirect in a branch's chain rewrites the question to.
QcTargets == {"t.com.", "u.com."}

QcStart(name, r) ==
    /\ qcMsg = [a \in QcAddrs |->
                  IF a = "q" THEN name
                  ELSE IF a = r THEN name ELSE NoTarget]
    /\ qcCtx = [c \in {"qCtx", "qCtxP", "qCtxS"} |->
                  IF c = "qCtx" THEN [q |-> "q", r |-> r] ELSE QcNoCtx]
    /\ qcMain = "copyP"
    /\ qcPc = [b \in QcBranches |-> "idle"]
    /\ qcOrg = [b \in QcBranches |-> NoTarget]

QcInit == \E name \in {"a.com.", "b.com."}, r \in {NilMsg, "r0"} : QcStart(name, r)

\* *qCtxP = *qCtx: the struct is assigned, the copy points to the messages the
\* original points to.
QcStructCopy(c) == c

\* qCtxP := f.qCtxPool.Get(); *qCtxP = *qCtx; go func() {...}()
QcCopyP ==
    /\ qcMain = "copyP"
    /\ qcCtx' = [qcCtx EXCEPT !["qCtxP"] = QcStructCopy(qcCtx["qCtx"])]
    /\ qcPc' = [qcPc EXCEPT !["P"] = "start"]
    /\ qcMain' = "copyS"
    /\ UNCHANGED <<qcMsg, qcOrg>>
    /\ UNCHANGED qcRest

\* qCtxS := f.qCtxPool.Get(); *qCtxS = *qCtx; go func() {...}()
QcCopyS ==
    /\ qcMain = "copyS"
    /\ qcCtx' = [qcCtx EXCEPT !["qCtxS"] = QcStructCopy(qcCtx["qCtx"])]
    /\ qcPc' = [qcPc EXCEPT !["S"] = "start"]
    /\ qcMain' = "wait"
    /\ UNCHANGED <<qcMsg, qcOrg>>
    /\ UNCHANGED qcRest

\* The chain of branch b starts with a Redirect whose rules match:
\* q := qCtx.Q(); orgQName := q.Question[0].Name;
\* q.Question[0].Name = redirectTarget
QcRedirect(b, target) ==
    /\ qcPc[b] = "start"
    /\ LET q == qcCtx[QcCopyOf(b)].q IN
         /\ qcMsg[q] # target
         /\ qcOrg' = [qcOrg EXCEPT ![b] = qcMsg[q]]
         /\ qcMsg' = [qcMsg EXCEPT ![q] = target]
    /\ qcPc' = [qcPc EXCEPT ![b] = "next"]
    /\ UNCHANGED <<qcCtx, qcMain>>
    /\ UNCHANGED qcRest

\* The chain of branch b rewrites nothing.
QcPass(b) ==
    /\ qcPc[b] = "start"
    /\ qcPc' = [qcPc EXCEPT ![b] = "next"]
    /\ UNCHANGED <<qcMsg, qcCtx, qcMain, qcOrg>>
    /\ UNCHANGED qcRest

\* The resolver of branch b answers the request as it reads it through the
\* branch's context and sets the response on that context (SetResponse), or
\* it leaves the context as it is.
QcAnswer(b) ==
    /\ qcPc[b] = "next"
    /\ \E answers \in BOOLEAN :
         IF answers
           THEN /\ qcMsg' = [qcMsg EXCEPT ![QcNewResp(b)] =
                                qcMsg[qcCtx[QcCopyOf(b)].q]]
                /\ qcCtx' = [qcCtx EXCEPT ![QcCopyOf(b)].r = QcNewResp(b)]
           ELSE UNCHANGED <<qcMsg, qcCtx>>
    /\ qcPc' = [qcPc EXCEPT ![b] = "answered"]
    /\ UNCHANGED <<qcMain, qcOrg>>
    /\ UNCHANGED qcRest

\* Back in Redirect.Exec of branch b: the question name of the response is
\* set back when it is the target, and the deferred function sets the request's
\* name back: q.Question[0].Name = orgQName. Then the branch is over.
QcRestore(b) ==
    /\ qcPc[b] = "answered"
    /\ LET c == qcCtx[QcCopyOf(b)]
           m1 == IF qcOrg[b] # NoTarget /\ c.r # NilMsg /\ qcMsg[c.r] = qcMsg[c.q]
                   THEN [qcMsg EXCEPT ![c.r] = qcOrg[b]] ELSE qcMsg IN
         qcMsg' = IF qcOrg[b] # NoTarget THEN [m1 EXCEPT ![c.q] = qcOrg[b]] ELSE m1
    /\ qcPc' = [qcPc EXCEPT ![b] = "done"]
    /\ UNCHANGED <<qcCtx, qcMain, qcOrg>>
    /\ UNCHANGED qcRest

\* case r := <-respChan: qCtx.SetResponse(r); return nil
QcSetResponse(b) ==
    /\ qcMain = "wait"
    /\ qcPc[b] = "done"
    /\ qcCtx[QcCopyOf(b)].r # NilMsg
    /\ qcCtx' = [qcCtx EXCEPT !["qCtx"].r = qcCtx[QcCopyOf(b)].r]
    /\ qcMain' = "ret"
    /\ UNCHANGED <<qcMsg, qcPc, qcOrg>>
    /\ UNCHANGED qcRest

QcNext ==
    \/ QcCopyP
    \/ QcCopyS
    \/ \E b \in QcBranches, target \in QcTargets : QcRedirect(b, target)
    \/ \E b \in QcBranches : QcPass(b)
    \/ \E b \in QcBranches : QcAnswer(b)
    \/ \E b \in QcBranches : QcRestore(b)
    \/ \E b \in QcBranches : QcSetResponse(b)

\* What is read through a context: the name of its request's question and the
\* response it carries.
QcView(c) ==
    [name |-> IF qcCtx[c].q = NilMsg THEN NoTarget ELSE qcMsg[qcCtx[c].q],
     r |-> qcCtx[c].r]

\* Branch b takes a step.
QcStepOf(b) == qcPc[b] \in {"start", "next", "answered"} /\ qcPc'[b] # qcPc[b]

\* C24: nothing a branch does to its copy is read through the original
\* context or through the other branch's copy: a step of a branch leaves what
\* both give for the request and the response as it was.
C24_CopiesShareNoState ==
    [][\A b \in QcBranches :
          QcStepOf(b) =>
              /\ QcView("qCtx")' = QcView("qCtx")
              /\ QcView(QcCopyOf(QcOther(b)))' = QcView(QcCopyOf(QcOther(b)))]_vars

\* ------------------------------------------- the contexts of the sub-tasks

\* queryTimeout = time.Second * 2, in clock ticks.
queryTimeout == 2

\* The sub-tasks of a request: the two branches of a fallback and the
\* dispatches of a forward.
ScBranches == {"primary", "secondary"}
ScDispatches == {"dispatch1", "dispatch2"}
ScTasks == ScBranches \cup ScDispatches

\* A context: what it was derived from and its own deadline.
ScNoCtx == [parent |-> "none", ddl |-> NoTimer]

Min(a, b) == IF a <= b THEN a ELSE b

WithDeadlineMutant(parent, d) == [parent |-> "background", ddl |-> d]
\* context.WithDeadline(parent, d): the child is done when the parent is; its
\* deadline is d, or the parent's when that is earlier.
WithDeadline(parent, d) ==
    [parent |-> "ctx",
     ddl |-> IF parent.ddl = NoTimer THEN d ELSE Min(parent.ddl, d)]

\* ddl, ok := ctx.Deadline(); if !ok { ddl = time.Now().Add(timeout) }
\* return context.WithDeadline(ctx, ddl)
ScMakeDdlCtx(ctx, timeout) ==
    WithDeadline(ctx, IF ctx.ddl # NoTimer THEN ctx.ddl ELSE scNow + timeout)

\* context.WithTimeout(ctx, timeout) is WithDeadline(ctx, time.Now().Add(timeout))
WithTimeout(ctx, timeout) == WithDeadline(ctx, scNow + timeout)

\* ctx.Done() is closed: the context was cancelled, its deadline has passed, or
\* the context it was derived from is done.
ScOuterDone == scOuter.cancelled \/ (scOuter.ddl # NoTimer /\ scNow >= scOuter.ddl)
ScDone(c) ==
    \/ c.parent = "ctx" /\ ScOuterDone
    \/ c.ddl # NoTimer /\ scNow >= c.ddl

ScStart(ddl) ==
    /\ scNow = 0
    /\ scOuter = [ddl |-> ddl, cancelled |-> FALSE]
    /\ scSub = [t \in ScTasks |-> ScNoCtx]

\* The request comes with a deadline or without one.
ScInit == \E ddl \in {NoTimer} \cup (1 .. MaxTime) : ScStart(ddl)

\* A branch of doFallback starts:
\* ctx, cancel := makeDdlCtx(ctx, defaultParallelTimeout)
ScBranchStart(t) ==
    /\ t \in ScBranches
    /\ scSub[t] = ScNoCtx
    /\ scSub' = [scSub EXCEPT ![t] = ScMakeDdlCtx(scOuter, ParallelTimeout)]
    /\ UNCHANGED <<scNow, scOuter>>
    /\ UNCHANGED scRest

\* A dispatch of Forward.Exec starts:
\* ctx, cancel := context.WithTimeout(ctx, queryTimeout)
ScDispatchStart(t) ==
    /\ t \in ScDispatches
    /\ scSub[t] = ScNoCtx
    /\ scSub' = [scSub EXCEPT ![t] = WithTimeout(scOuter, queryTimeout)]
    /\ UNCHANGED <<scNow, scOuter>>
    /\ UNCHANGED scRest

\* The outer request is cancelled.
ScCancel ==
    /\ ~scOuter.cancelled
    /\ scOuter' = [scOuter EXCEPT !.cancelled = TRUE]
    /\ UNCHANGED <<scNow, scSub>>
    /\ UNCHANGED scRest

\* Time passes.
ScTick ==
    /\ scNow < MaxTime
    /\ scNow' = scNow + 1
    /\ UNCHANGED <<scOuter, scSub>>
    /\ UNCHANGED scRest

ScNext ==
    \/ \E t \in ScTasks : ScBranchStart(t)
    \/ \E t \in ScTasks : ScDispatchStart(t)
    \/ ScCancel
    \/ ScTick

\* Sub-task t starts in this step.
ScStarts(t) == scSub[t] = ScNoCtx /\ scSub'[t] # ScNoCtx

\* The default timeout of the stage a sub-task belongs to.
ScDefaultTimeout(t) == IF t \in ScBranches THEN ParallelTimeout ELSE queryTimeout

\* C25 (the claim as stated): the context of every sub-task is derived from
\* the outer context, with the outer deadline when there is one and otherwise
\* the stage's default timeout from the moment the sub-task starts.
C25_SubTaskDeadlineIsOuterOrDefault ==
    [][\A t \in ScTasks :
          ScStarts(t) =>
              /\ scSub'[t].parent = "ctx"
              /\ scSub'[t].ddl = IF scOuter.ddl # NoTimer THEN scOuter.ddl
                                 ELSE scNow + ScDefaultTimeout(t)]_vars

\* The sub-tasks that have started.
ScStarted == {t \in ScTasks : scSub[t] # ScNoCtx}

\* C25 (amended): the context of every started sub-task is done whenever the
\* outer context is done; a fallback branch starts with the outer deadline
\* when there is one and otherwise with defaultParallelTimeout from its
\* start; a forward dispatch starts with queryTimeout from its start, or with
\* the outer deadline when that is earlier.
C25_SubTasksFollowOuterCtx ==
    /\ [](\A t \in ScStarted : ScOuterDone => ScDone(scSub[t]))
    /\ [][\A t \in ScTasks :
            ScStarts(t) =>
                /\ scSub'[t].parent = "ctx"
                /\ t \in ScBranches =>
                      scSub'[t].ddl = IF scOuter.ddl # NoTimer THEN scOuter.ddl
                                       ELSE scNow + ParallelTimeout
                /\ t \in ScDispatches =>
                      scSub'[t].ddl = IF scOuter.ddl # NoTimer
                                         THEN Min(scOuter.ddl, scNow + queryTimeout)
                                         ELSE scNow + queryTimeout]_vars

\* C25 witness: an outer context without a deadline is cancelled before the
\* deadlines of a running branch and a running dispatch, and both are done.
C25_Witness ==
    /\ scOuter = [ddl |-> NoTimer, cancelled |-> TRUE]
    /\ scSub["primary"] # ScNoCtx /\ scNow < scSub["primary"].ddl
    /\ scSub["dispatch1"] # ScNoCtx /\ scNow < scSub["dispatch1"].ddl
    /\ ScDone(scSub["primary"]) /\ ScDone(scSub["dispatch1"])

\* --------------------------------------------------------------------- mark

\* The marks of a run, and the mark lists a stage is configured with (a mark
\* may be named twice).
MarkIds == 1 .. MaxMark
MarkLists ==
    {<<>>} \cup {<<a>> : a \in MarkIds} \cup {<<a, b>> : a, b \in MarkIds}

\* qCtx.HasMark(u), qCtx.SetMark(u): the marks of a context are a set.
HasMark(marks, u) == u \in marks
SetMark(marks, u) == marks \cup {u}

\* for _, u := range m.m { if qCtx.HasMark(u) { return true, nil } }
\* return false, nil
RECURSIVE MarkMatch(_, _)
MarkMatch(m, marks) ==
    IF m = <<>> THEN FALSE
    ELSE IF HasMark(marks, Head(m)) THEN TRUE
    ELSE MarkMatch(Tail(m), marks)

MarkExecMutant(m, marks) == IF m = <<>> THEN marks ELSE SetMark(marks, Head(m))
\* for _, u := range m.m { qCtx.SetMark(u) }
RECURSIVE MarkExec(_, _)
MarkExec(m, marks) ==
    IF m = <<>> THEN marks ELSE MarkExec(Tail(m), SetMark(marks, Head(m)))

MkStart(m, marks) ==
    /\ mkM = m
    /\ mkMarks = marks
    /\ mkRes = "none"
    /\ mkHist = <<>>

\* newMarker has made the stage; the context comes with any marks.
MkInit == \E m \in MarkLists, marks \in SUBSET MarkIds : MkStart(m, marks)

\* func (m *mark) Match(_, qCtx) (bool, error)
MkMatch ==
    /\ Len(mkHist) < MaxOps
    /\ mkRes' = MarkMatch(mkM, mkMarks)
    /\ mkHist' = Append(mkHist, "Match")
    /\ UNCHANGED <<mkM, mkMarks>>
    /\ UNCHANGED mkRest

\* func (m *mark) Exec(_, qCtx) error
MkExec ==
    /\ Len(mkHist) < MaxOps
    /\ mkMarks' = MarkExec(mkM, mkMarks)
    /\ mkHist' = Append(mkHist, "Exec")
    /\ UNCHANGED <<mkM, mkRes>>
    /\ UNCHANGED mkRest

\* Another stage of the chain sets a mark on the context.
MkSetMark(u) ==
    /\ Len(mkHist) < MaxOps
    /\ mkMarks' = SetMark(mkMarks, u)
    /\ mkHist' = Append(mkHist, "SetMark")
    /\ UNCHANGED <<mkM, mkRes>>
    /\ UNCHANGED mkRest

MkNext ==
    \/ MkMatch
    \/ MkExec
    \/ \E u \in MarkIds : MkSetMark(u)

\* The configured marks as a set.
MkConfigured == {mkM[i] : i \in DOMAIN mkM}

\* The call made in this step, and the call before it.
MkCalls(op) == mkHist' = Append(mkHist, op)
MkAfter(op) == mkHist # <<>> /\ mkHist[Len(mkHist)] = op

\* C26: Match returns true exactly when the context carries at least one of
\* the configured marks and leaves the context as it is; Exec adds every
\* configured mark and removes none; an Exec after an Exec changes nothing;
\* with a non-empty list, Match is true once Exec has run.
C26_MarkStage ==
    /\ [][MkCalls("Match") =>
            /\ mkRes' = (MkConfigured \cap mkMarks # {})
            /\ mkMarks' = mkMarks]_vars
    /\ [][MkCalls("Exec") => mkMarks' = mkMarks \cup MkConfigured]_vars
    /\ [][(MkCalls("Exec") /\ MkAfter("Exec")) => mkMarks' = mkMarks]_vars
    /\ [][(MkCalls("Match") /\ mkM # <<>> /\ \E i \in DOMAIN mkHist : mkHist[i] = "Exec")
            => mkRes' = TRUE]_vars

\* C26 witness: a stage with two marks on a context that carried a third:
\* Match was false, Exec ran twice, and all three marks are on the context.
C26_Witness ==
    /\ Len(mkM) = 2 /\ mkM[1] # mkM[2]
    /\ mkHist = <<"Match", "Exec", "Exec">>
    /\ mkRes = FALSE
    /\ mkMarks = MarkIds
    /\ MkConfigured # MarkIds

\* ------------------------------------------------ redirect: the memo cache

\* cacheExpire: 5 * time.Minute, in clock ticks.
cacheExpire == 2

\* The concurrent requests and the names they ask for; every name has a rule.
McReqs == 1 .. MaxReq
McNames == {"a.com.", "b.com."}
McTarget(n) == IF n = "a.com." THEN "t.com." ELSE "u.com."

\* No entry for a name.
McNoEntry == [target |-> NoTarget, at |-> NoTimer]

McStart ==
    /\ mcNow = 0
    /\ mcCache = [n \in McNames |-> McNoEntry]
    /\ mcTimers = {}
    /\ mcPc = [r \in McReqs |-> "idle"]
    /\ mcKey = [r \in McReqs |-> NoTarget]

\* Exec: redirectTarget, ok := r.getCache(orgQName): on a hit Exec goes on
\* with the memoised target, on a miss it asks the matcher.
McGetCache(r, n) ==
    /\ mcPc[r] = "idle"
    /\ mcKey' = [mcKey EXCEPT ![r] = n]
    /\ mcPc' = [mcPc EXCEPT ![r] = IF mcCache[n] # McNoEntry THEN "done" ELSE "match"]
    /\ UNCHANGED <<mcNow, mcCache, mcTimers>>
    /\ UNCHANGED mcRest

\* redirectTarget, ok = r.m.Match(orgQName); if ok { r.setCache(...) }
\* setCache: r.cache[key] = value; go func() { time.Sleep(r.cacheExpire); ... }()
McSetCache(r) ==
    /\ mcPc[r] = "match"
    /\ mcCache' = [mcCache EXCEPT ![mcKey[r]] =
                      [target |-> McTarget(mcKey[r]), at |-> mcNow]]
    /\ mcTimers' = mcTimers \cup {[key |-> mcKey[r], wake |-> mcNow + cacheExpire]}
    /\ mcPc' = [mcPc EXCEPT ![r] = "done"]
    /\ UNCHANGED <<mcNow, mcKey>>
    /\ UNCHANGED mcRest

\* A sleeping goroutine of setCache wakes up:
\* r.cacheMutex.Lock(); delete(r.cache, key); r.cacheMutex.Unlock()
McExpire(n) ==
    /\ \E t \in mcTimers :
         /\ t.key = n
         /\ mcNow >= t.wake
         /\ mcTimers' = mcTimers \ {t}
    /\ mcCache' = [mcCache EXCEPT ![n] = McNoEntry]
    /\ UNCHANGED <<mcNow, mcPc, mcKey>>
    /\ UNCHANGED mcRest

\* The request is over; the next one comes.
McAgain(r) ==
    /\ mcPc[r] = "done"
    /\ mcPc' = [mcPc EXCEPT ![r] = "idle"]
    /\ mcKey' = [mcKey EXCEPT ![r] = NoTarget]
    /\ UNCHANGED <<mcNow, mcCache, mcTimers>>
    /\ UNCHANGED mcRest

\* Time passes; a goroutine whose sleep is over runs first.
McTick ==
    /\ mcNow < MaxTime
    /\ \A t \in mcTimers : mcNow < t.wake
    /\ mcNow' = mcNow + 1
    /\ UNCHANGED <<mcCache, mcTimers, mcPc, mcKey>>
    /\ UNCHANGED mcRest

McNext ==
    \/ \E r \in McReqs, n \in McNames : McGetCache(r, n)
    \/ \E r \in McReqs : McSetCache(r)
    \/ \E n \in McNames : McExpire(n)
    \/ \E r \in McReqs : McAgain(r)
    \/ McTick

\* The entry of name n is removed in this step.
McRemoved(n) == mcCache[n] # McNoEntry /\ mcCache'[n] = McNoEntry

\* C27: an entry written by setCache at time t stays in the memo cache until
\* t + cacheExpire: when an entry is removed, cacheExpire has passed since
\* it was written.
C27_EntryLivesItsWindow ==
    [][\A n \in McNames :
          McRemoved(n) => mcNow >= mcCache[n].at + cacheExpire]_vars

\* ---------------------------------------------------- redirect: NewRedirect

\* The largest number of files of args.Files.
MaxFiles == 2

\* The loader goroutines: 0 loads args.Rules, i >= 1 loads args.Files[i-1].
NrLoaders == 0 .. MaxFiles
NoLoader == 0 - 1
NoCache == "none"

\* make(chan error, 1)
NrErrChanCap == 1

NrStart(n) ==
    /\ nrFiles = n
    /\ nrPc = "rules"
    /\ nrI = 1
    /\ nrTask = [l \in NrLoaders |-> "none"]
    /\ nrFailed = {}
    /\ nrMu = NoLoader
    /\ nrErrChan = <<>>
    /\ nrClosed = FALSE
    /\ nrWg = 0
    /\ nrRet = "pending"
    /\ nrCache = NoCache

NrInit == \E n \in 0 .. MaxFiles : NrStart(n)

\* wg.Add(1); go func() { ... args.Rules ... }()
NrSpawnRules ==
    /\ nrPc = "rules"
    /\ nrWg' = nrWg + 1
    /\ nrTask' = [nrTask EXCEPT ![0] = "run"]
    /\ nrPc' = "files"
    /\ UNCHANGED <<nrFiles, nrI, nrFailed, nrMu, nrErrChan, nrClosed, nrRet, nrCache>>
    /\ UNCHANGED nrRest

\* for _, file := range args.Files { wg.Add(1); go func(file string) {...}(file) }
NrSpawnFile ==
    /\ nrPc = "files"
    /\ nrI <= nrFiles
    /\ nrWg' = nrWg + 1
    /\ nrTask' = [nrTask EXCEPT ![nrI] = "run"]
    /\ nrI' = nrI + 1
    /\ UNCHANGED <<nrFiles, nrPc, nrFailed, nrMu, nrErrChan, nrClosed, nrRet, nrCache>>
    /\ UNCHANGED nrRest

\* The loop over the files is over: NewRedirect comes to wg.Wait().
NrSpawnEnd ==
    /\ nrPc = "files"
    /\ nrI > nrFiles
    /\ nrPc' = "wait"
    /\ UNCHANGED <<nrFiles, nrI, nrTask, nrFailed, nrMu, nrErrChan, nrClosed, nrWg,
                   nrRet, nrCache>>
    /\ UNCHANGED nrRest

\* A loader loads its rules or its file: domain.Load, os.ReadFile,
\* domain.LoadFromTextReader. With no error it returns (defer wg.Done());
\* with an error it goes on to mu.Lock().
NrLoad(l) ==
    /\ nrTask[l] = "run"
    /\ \E ok \in BOOLEAN :
         IF ok
           THEN /\ nrTask' = [nrTask EXCEPT ![l] = "done"]
                /\ nrWg' = nrWg - 1
                /\ UNCHANGED nrFailed
           ELSE /\ nrTask' = [nrTask EXCEPT ![l] = "lock"]
                /\ nrFailed' = nrFailed \cup {l}
                /\ UNCHANGED nrWg
    /\ UNCHANGED <<nrFiles, nrPc, nrI, nrMu, nrErrChan, nrClosed, nrRet, nrCache>>
    /\ UNCHANGED nrRest

\* mu.Lock()
NrLock(l) ==
    /\ nrTask[l] = "lock"
    /\ nrMu = NoLoader
    /\ nrMu' = l
    /\ nrTask' = [nrTask EXCEPT ![l] = "send"]
    /\ UNCHANGED <<nrFiles, nrPc, nrI, nrFailed, nrErrChan, nrClosed, nrWg, nrRet, nrCache>>
    /\ UNCHANGED nrRest

\* errChan <- fmt.Errorf(...): blocks while the buffer is full.
NrSend(l) ==
    /\ nrTask[l] = "send"
    /\ Len(nrErrChan) < NrErrChanCap
    /\ nrErrChan' = Append(nrErrChan, l)
    /\ nrTask' = [nrTask EXCEPT ![l] = "unlock"]
    /\ UNCHANGED <<nrFiles, nrPc, nrI, nrFailed, nrMu, nrClosed, nrWg, nrRet, nrCache>>
    /\ UNCHANGED nrRest

\* mu.Unlock(); return   (defer wg.Done())
NrUnlock(l) ==
    /\ nrTask[l] = "unlock"
    /\ nrMu' = NoLoader
    /\ nrTask' = [nrTask EXCEPT ![l] = "done"]
    /\ nrWg' = nrWg - 1
    /\ UNCHANGED <<nrFiles, nrPc, nrI, nrFailed, nrErrChan, nrClosed, nrRet, nrCache>>
    /\ UNCHANGED nrRest

\* wg.Wait() returns; close(errChan)
NrWait ==
    /\ nrPc = "wait"
    /\ nrWg = 0
    /\ nrClosed' = TRUE
    /\ nrPc' = "recv"
    /\ UNCHANGED <<nrFiles, nrI, nrTask, nrFailed, nrMu, nrErrChan, nrWg, nrRet, nrCache>>
    /\ UNCHANGED nrRest

\* if err := <-errChan; err != nil { return nil, err }
\* return &Redirect{m: m, cache: make(map[string]string), ...}, nil
NrRecv ==
    /\ nrPc = "recv"
    /\ nrErrChan # <<>> \/ nrClosed
    /\ nrPc' = "ret"
    /\ IF nrErrChan # <<>>
         THEN /\ nrRet' = "err"
              /\ nrErrChan' = Tail(nrErrChan)
              /\ UNCHANGED nrCache
         ELSE /\ nrRet' = "ok"
              /\ nrCache' = {}
              /\ UNCHANGED nrErrChan
    /\ UNCHANGED <<nrFiles, nrI, nrTask, nrFailed, nrMu, nrClosed, nrWg>>
    /\ UNCHANGED nrRest

NrNext ==
    \/ NrSpawnRules
    \/ NrSpawnFile
    \/ NrSpawnEnd
    \/ \E l \in NrLoaders : NrLoad(l)
    \/ \E l \in NrLoaders : NrLock(l)
    \/ \E l \in NrLoaders : NrSend(l)
    \/ \E l \in NrLoaders : NrUnlock(l)
    \/ NrWait
    \/ NrRecv

\* NewRedirect has returned.
NrReturned == nrPc = "ret"

\* NewRedirect or one of its loaders can take a step.
NrCanStep ==
    \/ nrPc \in {"rules", "files"}
    \/ nrPc = "wait" /\ nrWg = 0
    \/ nrPc = "recv" /\ (nrErrChan # <<>> \/ nrClosed)
    \/ \E l \in NrLoaders :
         \/ nrTask[l] \in {"run", "unlock"}
         \/ nrTask[l] = "lock" /\ nrMu = NoLoader
         \/ nrTask[l] = "send" /\ Len(nrErrChan) < NrErrChanCap

\* C30: NewRedirect always terminates: it never blocks before it has
\* returned, also when two or more loads fail concurrently; when a load has
\* failed it returns an error, and when all loads succeed it returns a
\* Redirect with an empty memo cache.
C30_NewRedirectTerminates ==
    /\ ~NrReturned => NrCanStep
    /\ NrReturned => (nrRet = "err") = (nrFailed # {})
    /\ nrRet = "ok" => nrCache = {}

\* ------------------------------------------- base_domain: Matcher.Match

\* The largest number of sub-matchers of m.mg.
MaxMatchers == 2

DmTasks == 1 .. MaxMatchers
NoErr == 0
NoRet == [matched |-> FALSE, err |-> 0 - 1]

\* What m.match(qCtx, m) returns: a match, no match, or an error.
DmOutcomes == {"match", "nomatch", "err"}

DmStart(n) ==
    /\ dmN = n
    /\ dmPc = "loop"
    /\ dmI = 1
    /\ dmTask = [k \in DmTasks |-> "none"]
    /\ dmLocMatched = [k \in DmTasks |-> FALSE]
    /\ dmLocErr = [k \in DmTasks |-> NoErr]
    /\ dmReported = {}
    /\ dmMu = NoLoader
    /\ dmMatched = FALSE
    /\ dmFirstErr = NoErr
    /\ dmWg = 0
    /\ dmRet = NoRet

DmInit == \E n \in 0 .. MaxMatchers : DmStart(n)

\* for _, matcher := range m.mg { wg.Add(1); go func(m ...) {...}(matcher) }
DmSpawn ==
    /\ dmPc = "loop"
    /\ dmI <= dmN
    /\ dmWg' = dmWg + 1
    /\ dmTask' = [dmTask EXCEPT ![dmI] = "call"]
    /\ dmI' = dmI + 1
    /\ UNCHANGED <<dmN, dmPc, dmLocMatched, dmLocErr, dmReported, dmMu, dmMatched,
                   dmFirstErr, dmRet>>
    /\ UNCHANGED dmRest

\* The loop is over: Match comes to wg.Wait().
DmSpawnEnd ==
    /\ dmPc = "loop"
    /\ dmI > dmN
    /\ dmPc' = "wait"
    /\ UNCHANGED <<dmN, dmI, dmTask, dmLocMatched, dmLocErr, dmReported, dmMu, dmMatched,
                   dmFirstErr, dmWg, dmRet>>
    /\ UNCHANGED dmRest

\* matched, err := m.match(qCtx, m): the := declares the goroutine's own
\* matched and err; Match's matched is not the variable assigned here.
DmCall(k) ==
    /\ dmTask[k] = "call"
    /\ \E o \in DmOutcomes :
         /\ dmLocMatched' = [dmLocMatched EXCEPT ![k] = (o = "match")]
         /\ dmLocErr' = [dmLocErr EXCEPT ![k] = IF o = "err" THEN k ELSE NoErr]
         /\ dmReported' = IF o = "match" THEN dmReported \cup {k} ELSE dmReported
    /\ dmTask' = [dmTask EXCEPT ![k] = "err"]
    /\ UNCHANGED <<dmN, dmPc, dmI, dmMu, dmMatched, dmFirstErr, dmWg, dmRet>>
    /\ UNCHANGED dmRest

\* if err != nil && firstErr == nil: firstErr is read without mu, so while
\* another task has written it the read may still see nil.
DmCheckErr(k) ==
    /\ dmTask[k] = "err"
    /\ \E seen \in {dmFirstErr, NoErr} :
         dmTask' = [dmTask EXCEPT ![k] =
                      IF dmLocErr[k] # NoErr /\ seen = NoErr THEN "lockE" ELSE "matched"]
    /\ UNCHANGED <<dmN, dmPc, dmI, dmLocMatched, dmLocErr, dmReported, dmMu, dmMatched,
                   dmFirstErr, dmWg, dmRet>>
    /\ UNCHANGED dmRest

\* mu.Lock()   (before firstErr = err and before matched = true)
DmLock(k) ==
    /\ dmTask[k] \in {"lockE", "lockM"}
    /\ dmMu = NoLoader
    /\ dmMu' = k
    /\ dmTask' = [dmTask EXCEPT ![k] = IF dmTask[k] = "lockE" THEN "setE" ELSE "setM"]
    /\ UNCHANGED <<dmN, dmPc, dmI, dmLocMatched, dmLocErr, dmReported, dmMatched,
                   dmFirstErr, dmWg, dmRet>>
    /\ UNCHANGED dmRest

\* firstErr = err; mu.Unlock()
DmSetErr(k) ==
    /\ dmTask[k] = "setE"
    /\ dmFirstErr' = dmLocErr[k]
    /\ dmMu' = NoLoader
    /\ dmTask' = [dmTask EXCEPT ![k] = "matched"]
    /\ UNCHANGED <<dmN, dmPc, dmI, dmLocMatched, dmLocErr, dmReported, dmMatched, dmWg,
                   dmRet>>
    /\ UNCHANGED dmRest

\* if matched { ... }: the goroutine's own matched is tested; when it is
\* false the goroutine returns (defer wg.Done()).
DmCheckMatched(k) ==
    /\ dmTask[k] = "matched"
    /\ IF dmLocMatched[k]
         THEN dmTask' = [dmTask EXCEPT ![k] = "lockM"] /\ UNCHANGED dmWg
         ELSE dmTask' = [dmTask EXCEPT ![k] = "done"] /\ dmWg' = dmWg - 1
    /\ UNCHANGED <<dmN, dmPc, dmI, dmLocMatched, dmLocErr, dmReported, dmMu, dmMatched,
                   dmFirstErr, dmRet>>
    /\ UNCHANGED dmRest

\* matched = true; mu.Unlock(); return (defer wg.Done()): the assignment is to
\* the goroutine's own matched, Match's matched stays as it is.
DmSetMatched(k) ==
    /\ dmTask[k] = "setM"
    /\ dmLocMatched' = [dmLocMatched EXCEPT ![k] = TRUE]
    /\ dmMu' = NoLoader
    /\ dmTask' = [dmTask EXCEPT ![k] = "done"]
    /\ dmWg' = dmWg - 1
    /\ UNCHANGED <<dmN, dmPc, dmI, dmLocErr, dmReported, dmMatched, dmFirstErr, dmRet>>
    /\ UNCHANGED dmRest

\* wg.Wait(); if firstErr != nil { return false, firstErr }; return matched, nil
DmReturn ==
    /\ dmPc = "wait"
    /\ dmWg = 0
    /\ dmPc' = "ret"
    /\ dmRet' = IF dmFirstErr # NoErr
                  THEN [matched |-> FALSE, err |-> dmFirstErr]
                  ELSE [matched |-> dmMatched, err |-> NoErr]
    /\ UNCHANGED <<dmN, dmI, dmTask, dmLocMatched, dmLocErr, dmReported, dmMu, dmMatched,
                   dmFirstErr, dmWg>>
    /\ UNCHANGED dmRest

DmNext ==
    \/ DmSpawn
    \/ DmSpawnEnd
    \/ \E k \in DmTasks : DmCall(k)
    \/ \E k \in DmTasks : DmCheckErr(k)
    \/ \E k \in DmTasks : DmLock(k)
    \/ \E k \in DmTasks : DmSetErr(k)
    \/ \E k \in DmTasks : DmCheckMatched(k)
    \/ \E k \in DmTasks : DmSetMatched(k)
    \/ DmReturn

\* The sub-matchers that returned an error.
DmErred == {k \in DmTasks : dmLocErr[k] # NoErr}

\* C31: Match returns true if and only if at least one sub-matcher of its
\* group reports a match and no sub-matcher returned an error, for every
\* scheduling of the sub-matcher tasks.
C31_MatchIffSomeSubMatcher ==
    dmPc = "ret" => (dmRet.matched <=> (dmReported # {} /\ DmErred = {}))

\* -------------------------------------------------------------------- cache

Requests == 1..MaxReq

\* The request messages: the transaction id q.Id (a uint16), the name of the
\* first question, the number of questions.
CaQuestions ==
    { [id |-> 1, name |-> "a.com", nq |-> 1],
      [id |-> 258, name |-> "a.com", nq |-> 1],
      [id |-> 1, name |-> "A.com", nq |-> 1],
      [id |-> 1, name |-> "a.com", nq |-> 2] }
NoQuestion == [id |-> 0, name |-> "none", nq |-> 0]

\* The requests of the runs that look at the lazy refresh of one key.
CaLazyQuestions ==
    { [id |-> 258, name |-> "a.com", nq |-> 1],
      [id |-> 1, name |-> "a.com", nq |-> 2] }

\* Case normalisation of a question name.
Lower(n) == IF n = "A.com" THEN "a.com" ELSE n

\* The n low bytes of v, most significant first.
RECURSIVE BigEndian(_, _)
BigEndian(v, n) ==
    IF n = 0 THEN <<>> ELSE Append(BigEndian(v \div 256, n - 1), v % 256)

\* binary.BigEndian.PutUint64(key[:8], v)
PutUint64(v) == BigEndian(v, 8)

\* The last 8 bytes of the key: taken from the question.
KeyTail(q) == <<Lower(q.name)>>

\* A request with other than one question has no key.
Keyable(q) == q.nq = 1

getMsgKeyMutant(q) == IF Keyable(q) THEN PutUint64(0) \o KeyTail(q) ELSE <<>>
\* key := make([]byte, 16); PutUint64(key[:8], uint64(q.Id)); copy(key[8:], q...)
getMsgKey(q) == IF Keyable(q) THEN PutUint64(q.id) \o KeyTail(q) ELSE <<>>

CaKeys == {getMsgKey(q) : q \in CaQuestions} \ {<<>>}

\* The content of the items of the dump, and of the responses next produces.
DumpContent == "c1"
NextContent == "c2"

\* The id of a stored message: whatever it was stored with.
StoredId == 0

\* A dns.Msg response: its id, its content, and whether the object is the one
\* getRespFromCache handed out (what the pointer compare of Exec tests).
NoResp == [id |-> 0, content |-> "none", src |-> "none"]
\* The item of a key: the content of the stored response and how its ttl stands.
NoItem == [content |-> "none", st |-> "none"]

\* getRespFromCache: a copy of the stored response and lazyHit. A fresh item
\* is a hit; a stale one is a lazy hit when the lazy cache is on; else a miss.
getRespFromCache(k, lazyCacheEnabled) ==
    LET v == caBackend[k] IN
    IF v.st = "fresh"
      THEN <<[id |-> StoredId, content |-> v.content, src |-> "cache"], FALSE>>
    ELSE IF v.st = "stale" /\ lazyCacheEnabled
      THEN <<[id |-> StoredId, content |-> v.content, src |-> "cache"], TRUE>>
    ELSE <<NoResp, FALSE>>

\* saveRespToCache: the response is stored under the key with a fresh ttl.
saveRespToCache(k, r) ==
    [caBackend EXCEPT ![k] = [content |-> r.content, st |-> "fresh"]]

ServeCachedMutant(q, cachedResp) == cachedResp
\* cachedResp.Id = q.Id; qCtx.SetResponse(cachedResp)
ServeCached(q, cachedResp) == [cachedResp EXCEPT !.id = q.id]

CaMustSaveMutant(r) == r # NoResp
\* if r := qCtx.R(); r != nil && cachedResp != r  (pointer compare)
CaMustSave(r) == r # NoResp /\ r.src # "cache"

SkipNextOnHitMutant(cachedResp) == cachedResp = NoResp
\* err := next.ExecNext(ctx, qCtx) is reached whatever the lookup found.
CallsNext(cachedResp) == TRUE

CaReturnMutant(e) == "nil"
\* return next.ExecNext(ctx, qCtx) / return err
CaReturn(e) == IF e THEN "err" ELSE "nil"

LazyUpdateCtxMutant(r, timedOut) ==
    IF timedOut THEN "timeout" ELSE IF rCtxDone[r] THEN "cancelled" ELSE "live"
\* ctx, cancel := context.WithTimeout(context.Background(), defaultLazyUpdateTimeout)
\* The context is done when its own timeout has passed, and only then.
LazyUpdateCtx(r, timedOut) == IF timedOut THEN "timeout" ELSE "live"

\* err of next.ExecNext(ctx, qCtx) in lazyUpdateFunc: next fails when its
\* context is done (by a cancellation from outside, or by the timeout), and
\* else it fails or not.
LazyUpdateErr(ctxState, e) ==
    IF ctxState = "cancelled" THEN "cancelled"
    ELSE IF ctxState = "timeout" \/ e THEN "err" ELSE "ok"

ForgetMutant(m) == caMapCall
\* sf.Forget(msgKey): the key is deleted from the Group's map.
Forget(m) == [caMapCall EXCEPT ![m] = 0]

\* What next can leave on a query context: the response it found there, or a
\* response of its own to the request.
NextResp(found, q) ==
    {found, [id |-> q.id, content |-> NextContent, src |-> "next"]}

CaStart(inputs, lazy, backend) ==
    /\ caInputs = inputs
    /\ caLazy = lazy
    /\ caBackend = backend
    /\ caUpdated = 0
    /\ caSfStore = [k \in CaKeys |-> 0]
    /\ caGrpM = [r \in Requests |-> 0]
    /\ caMapCall = [r \in Requests |-> 0]
    /\ rq = [r \in Requests |-> NoQuestion]
    /\ rKey = [r \in Requests |-> <<>>]
    /\ rpc = [r \in Requests |-> "idle"]
    /\ rCached = [r \in Requests |-> NoResp]
    /\ rLazyHit = [r \in Requests |-> FALSE]
    /\ rResp = [r \in Requests |-> NoResp]
    /\ rErr = [r \in Requests |-> FALSE]
    /\ rNextCalls = [r \in Requests |-> 0]
    /\ rRet = [r \in Requests |-> "pending"]
    /\ rCtxDone = [r \in Requests |-> FALSE]
    /\ tOutcome = [r \in Requests |-> "none"]
    /\ tpc = [r \in Requests |-> "none"]
    /\ tJoin = [r \in Requests |-> 0]
    /\ tNextCalls = [r \in Requests |-> 0]

\* NewCache: the backend is empty or holds the unexpired items of the dump.
CaInit ==
    \E lazy \in BOOLEAN :
    \E backend \in [CaKeys -> {NoItem, [content |-> DumpContent, st |-> "fresh"]}] :
        CaStart(CaQuestions, lazy, backend)

\* An empty backend.
CaEmptyBackend == [k \in CaKeys |-> NoItem]

\* A request without a key:
\* if len(msgKey) == 0 { return next.ExecNext(ctx, qCtx) }
CaExecSkip(r, q) ==
    /\ rpc[r] = "idle"
    /\ q \in caInputs
    /\ IF r = 1 THEN TRUE ELSE rpc[r - 1] # "idle"
    /\ Len(getMsgKey(q)) = 0
    /\ rq' = [rq EXCEPT ![r] = q]
    /\ rKey' = [rKey EXCEPT ![r] = getMsgKey(q)]
    /\ \E e \in BOOLEAN, resp \in NextResp(rResp[r], q) :
         /\ rErr' = [rErr EXCEPT ![r] = e]
         /\ rResp' = [rResp EXCEPT ![r] = resp]
    /\ rRet' = [rRet EXCEPT ![r] = CaReturn(rErr'[r])]
    /\ rNextCalls' = [rNextCalls EXCEPT ![r] = @ + 1]
    /\ rpc' = [rpc EXCEPT ![r] = "done"]
    /\ UNCHANGED <<caShared, rCached, rLazyHit, caTask, rCtxDone>>
    /\ UNCHANGED caRest

\* A request with a key enters Exec: msgKey := getMsgKey(q);
\* cachedResp, lazyHit := getRespFromCache(...); on a hit the response is
\* given the request's id and set on the query context.
CaExecLookup(r, q) ==
    /\ rpc[r] = "idle"
    /\ q \in caInputs
    /\ IF r = 1 THEN TRUE ELSE rpc[r - 1] # "idle"
    /\ Len(getMsgKey(q)) # 0
    /\ rq' = [rq EXCEPT ![r] = q]
    /\ rKey' = [rKey EXCEPT ![r] = getMsgKey(q)]
    /\ LET got == getRespFromCache(getMsgKey(q), caLazy) IN
         /\ rCached' = [rCached EXCEPT ![r] = got[1]]
         /\ rLazyHit' = [rLazyHit EXCEPT ![r] = got[2]]
         /\ rResp' = [rResp EXCEPT ![r] =
                        IF got[1] # NoResp THEN ServeCached(q, got[1]) ELSE @]
         /\ rpc' = [rpc EXCEPT ![r] = IF got[2] THEN "lazy" ELSE "next"]
    /\ UNCHANGED <<caShared, rErr, rNextCalls, rRet, caTask, rCtxDone>>
    /\ UNCHANGED caRest

\* doLazyUpdate: sfPtr, _ := c.lazyUpdateMap.LoadOrStore(msgKey, &sf);
\* sf = *sfPtr (the stored Group is copied into the local one); go sf.Do(...)
CaLazyUpdate(r) ==
    /\ rpc[r] = "lazy"
    /\ LET k == rKey[r] IN
         IF caSfStore[k] = 0
           THEN /\ caSfStore' = [caSfStore EXCEPT ![k] = r]
                /\ UNCHANGED caGrpM
           ELSE /\ caGrpM' = [caGrpM EXCEPT ![r] = caGrpM[caSfStore[k]]]
                /\ UNCHANGED caSfStore
    /\ tpc' = [tpc EXCEPT ![r] = "spawned"]
    /\ rpc' = [rpc EXCEPT ![r] = "next"]
    /\ UNCHANGED <<caInputs, caLazy, caBackend, caUpdated, caMapCall, rq, rKey, rCached,
                   rLazyHit, rResp, rErr, rNextCalls, rRet, tJoin, tNextCalls,
                   tOutcome, rCtxDone>>
    /\ UNCHANGED caRest

\* err := next.ExecNext(ctx, qCtx)
\* if r != nil && cachedResp != r { saveRespToCache(...); c.updatedKey.Add(1) }
\* return err
CaExecNext(r) ==
    /\ rpc[r] = "next"
    /\ IF CallsNext(rCached[r])
         THEN /\ \E e \in BOOLEAN, resp \in NextResp(rResp[r], rq[r]) :
                   /\ rErr' = [rErr EXCEPT ![r] = e]
                   /\ rResp' = [rResp EXCEPT ![r] = resp]
              /\ rNextCalls' = [rNextCalls EXCEPT ![r] = @ + 1]
         ELSE UNCHANGED <<rErr, rResp, rNextCalls>>
    /\ IF CaMustSave(rResp'[r])
         THEN /\ caBackend' = saveRespToCache(rKey[r], rResp'[r])
              /\ caUpdated' = caUpdated + 1
         ELSE UNCHANGED <<caBackend, caUpdated>>
    /\ rRet' = [rRet EXCEPT ![r] = CaReturn(rErr'[r])]
    /\ rpc' = [rpc EXCEPT ![r] = "done"]
    /\ UNCHANGED <<caInputs, caLazy, caSfStore, caGrpM, caMapCall, rq, rKey, rCached,
                   rLazyHit, caTask, rCtxDone>>
    /\ UNCHANGED caRest

\* sf.Do(msgKey, lazyUpdateFunc) on the local Group: a nil map is made; a call
\* registered under the key is joined, otherwise this call is registered and
\* runs lazyUpdateFunc. (The critical section of Do is taken as one step.)
CaSfDo(r) ==
    /\ tpc[r] = "spawned"
    /\ LET m == IF caGrpM[r] = 0 THEN r ELSE caGrpM[r] IN
         /\ caGrpM' = [caGrpM EXCEPT ![r] = m]
         /\ IF caMapCall[m] # 0
              THEN /\ tpc' = [tpc EXCEPT ![r] = "joined"]
                   /\ tJoin' = [tJoin EXCEPT ![r] = caMapCall[m]]
                   /\ UNCHANGED caMapCall
              ELSE /\ tpc' = [tpc EXCEPT ![r] = "running"]
                   /\ caMapCall' = [caMapCall EXCEPT ![m] = r]
                   /\ UNCHANGED tJoin
    /\ UNCHANGED <<caInputs, caLazy, caBackend, caUpdated, caSfStore, caReq, tNextCalls,
                   tOutcome, rCtxDone>>
    /\ UNCHANGED caRest

\* lazyUpdateFunc:
\* ctx, cancel := context.WithTimeout(context.Background(), defaultLazyUpdateTimeout)
\* err := next.ExecNext(ctx, qCtx); r := qCtx.R()
\* if r != nil { saveRespToCache(...); c.updatedKey.Add(1) }
\* next ends with an error when its context is done, and else with or without
\* one; either way it may have left a response on the copy.
CaRefresh(r) ==
    /\ tpc[r] = "running"
    /\ \E timedOut \in BOOLEAN, e \in BOOLEAN, resp \in NextResp(NoResp, rq[r]) :
         /\ tOutcome' = [tOutcome EXCEPT ![r] =
                           LazyUpdateErr(LazyUpdateCtx(r, timedOut), e)]
         /\ IF resp # NoResp
              THEN /\ caBackend' = saveRespToCache(rKey[r], resp)
                   /\ caUpdated' = caUpdated + 1
              ELSE UNCHANGED <<caBackend, caUpdated>>
    /\ tNextCalls' = [tNextCalls EXCEPT ![r] = @ + 1]
    /\ tpc' = [tpc EXCEPT ![r] = "forget"]
    /\ UNCHANGED <<caInputs, caLazy, caSfStore, caGrpM, caMapCall, caReq, tJoin, rCtxDone>>
    /\ UNCHANGED caRest

\* defer sf.Forget(msgKey), and the call is over.
CaRefreshForget(r) ==
    /\ tpc[r] = "forget"
    /\ caMapCall' = Forget(caGrpM[r])
    /\ tpc' = [tpc EXCEPT ![r] = "done"]
    /\ tOutcome' = [tOutcome EXCEPT ![r] = "none"]
    /\ UNCHANGED <<caInputs, caLazy, caBackend, caUpdated, caSfStore, caGrpM, caReq,
                   tJoin, tNextCalls, rCtxDone>>
    /\ UNCHANGED caRest

\* A goroutine that joined a call returns from Do when that call is over.
CaJoinDone(r) ==
    /\ tpc[r] = "joined"
    /\ tpc[tJoin[r]] = "done"
    /\ tpc' = [tpc EXCEPT ![r] = "done"]
    /\ UNCHANGED <<caShared, caReq, tJoin, tNextCalls, tOutcome, rCtxDone>>
    /\ UNCHANGED caRest

\* Time passes for an item: a fresh one goes stale (item.Expired), with the
\* lazy cache off it is gone; a stale one leaves the lazy window.
CaAge(k) ==
    /\ caBackend[k].st # "none"
    /\ caBackend' = [caBackend EXCEPT ![k] =
                       IF @.st = "fresh" /\ caLazy
                         THEN [@ EXCEPT !.st = "stale"]
                         ELSE NoItem]
    /\ UNCHANGED <<caInputs, caLazy, caUpdated, caSfStore, caGrpM, caMapCall, caReq,
                   caTask, rCtxDone>>
    /\ UNCHANGED caRest

\* The context Exec was called with is cancelled or runs out, while Exec runs
\* or after it has returned, for a request whose background goroutine has not
\* run lazyUpdateFunc yet (the cache itself never looks at that context).
CaCancelCtx(r) ==
    /\ tpc[r] \in {"spawned", "running"}
    /\ ~rCtxDone[r]
    /\ rCtxDone' = [rCtxDone EXCEPT ![r] = TRUE]
    /\ UNCHANGED <<caShared, caReq, caTask>>
    /\ UNCHANGED caRest

CaNext ==
    \/ \E r \in Requests, q \in CaQuestions : CaExecSkip(r, q)
    \/ \E r \in Requests, q \in CaQuestions : CaExecLookup(r, q)
    \/ \E r \in Requests : CaLazyUpdate(r)
    \/ \E r \in Requests : CaExecNext(r)
    \/ \E r \in Requests : CaSfDo(r)
    \/ \E r \in Requests : CaRefresh(r)
    \/ \E r \in Requests : CaRefreshForget(r)
    \/ \E r \in Requests : CaJoinDone(r)
    \/ \E k \in CaKeys : CaAge(k)

\* The cache together with the cancellation of the requests' contexts.
CaCtxNext ==
    \/ CaNext
    \/ \E r \in Requests : CaCancelCtx(r)

\* A started lazyUpdateFunc goes on: next returns within the timeout of the
\* context it is given, and the goroutine is scheduled.
CaRefreshFairness ==
    \A r \in Requests :
        WF_vars(CaRefresh(r)) /\ WF_vars(CaRefreshForget(r))

\* ------------------------------------------------------ claims on the cache

\* The background goroutines that are inside lazyUpdateFunc for key k.
CaRefreshing(k) == {r \in Requests : tpc[r] \in {"running", "forget"} /\ rKey[r] = k}

\* A request that got a fresh hit: an unexpired entry was found for its key.
CaFreshHit(r) == rpc[r] # "idle" /\ rCached[r] # NoResp /\ ~rLazyHit[r]

\* The response is the cached snapshot under the request's transaction id.
CaIsSnapshotFor(r, resp) ==
    resp.id = rq[r].id /\ resp.content = rCached[r].content

\* C1: for any key, at every moment at most one background refresh task is
\* running for that key; a request that finds one in flight joins it.
C1_AtMostOneRefreshPerKey ==
    \A k \in CaKeys : Cardinality(CaRefreshing(k)) <= 1

\* C6: two requests with the same (case-normalized) question get the same key
\* from getMsgKey, whatever their transaction ids.
C6_KeyIgnoresTransactionId ==
    \A r1, r2 \in Requests :
        (/\ rpc[r1] # "idle" /\ rpc[r2] # "idle"
         /\ Keyable(rq[r1]) /\ Keyable(rq[r2])
         /\ Lower(rq[r1].name) = Lower(rq[r2].name))
        => rKey[r1] = rKey[r2]

C17_RefreshCompletesAndReleases ==
    \A r \in Requests :
        (tpc[r] = "running") ~> (tpc[r] = "done" /\ caMapCall[caGrpM[r]] # r)

C17_Witness ==
    \E r1, r2 \in Requests :
        /\ r1 # r2 /\ rKey[r1] = rKey[r2]
        /\ tpc[r1] = "done" /\ tNextCalls[r1] = 1
        /\ caGrpM[r2] = caGrpM[r1]
        /\ tpc[r2] = "running"

\* C18: the refresh is detached from the request that triggered it: the
\* next of lazyUpdateFunc is never cancelled by the request's context, also
\* when that context is done before or while the refresh runs.
C18_RefreshDetached ==
    \A r \in Requests : tOutcome[r] # "cancelled"

C18_Witness ==
    \E r \in Requests :
        /\ rCtxDone[r] /\ rpc[r] = "done"
        /\ tpc[r] = "forget" /\ tOutcome[r] = "ok"
        /\ caBackend[rKey[r]] = [content |-> NextContent, st |-> "fresh"]

\* The lazyUpdateFunc of request r returns from next with an error.
CaRefreshFails(r) ==
    tpc[r] = "running" /\ tpc'[r] = "forget" /\ tOutcome'[r] = "err"

\* C19: when a background refresh fails (next returns an error), nothing is
\* written to the cache table and the change counter is not incremented.
C19_FailedRefreshWritesNothing ==
    [][\A r \in Requests :
          CaRefreshFails(r) => (caBackend' = caBackend /\ caUpdated' = caUpdated)]_vars

\* Exec is entered and left for a request that has no key.
CaBypasses(r) == rpc[r] = "idle" /\ rpc'[r] # "idle" /\ ~Keyable(rq'[r])

CaExecEnds(r) == rpc[r] = "next" /\ rpc'[r] = "done"

\* C21: when Exec returns for a keyed request, it has written the cache table
\* exactly when the request ends with a response that is not the one served
\* from the cache: that response is stored under the request's key and the
\* change counter grows by one; a request that ends with the response it was
\* served from the cache, or with none, leaves table and counter as they were.
C21_WritesIffNotFromCache ==
    [][\A r \in Requests :
          CaExecEnds(r) =>
              IF rResp'[r] # NoResp /\ rResp'[r].src # "cache"
                THEN /\ caBackend' = [caBackend EXCEPT ![rKey[r]] =
                                        [content |-> rResp'[r].content,
                                         st |-> "fresh"]]
                     /\ caUpdated' = caUpdated + 1
                ELSE caBackend' = caBackend /\ caUpdated' = caUpdated]_vars

\* C21 witness: one request ended with next's response, which is in the table
\* under its key with the counter at one; another one ended with the response
\* it was served from the cache and the counter did not move.
C21_Witness ==
    \E r1, r2 \in Requests :
        /\ rpc[r1] = "done" /\ rResp[r1].src = "next" /\ rCached[r1] = NoResp
        /\ rKey[r1] \in CaKeys
        /\ caBackend[rKey[r1]] = [content |-> NextContent, st |-> "fresh"]
        /\ rpc[r2] = "done" /\ rResp[r2].src = "cache"
        /\ rResp[r2].content = NextContent
        /\ caUpdated = 1

\* ---------------------------------------------------------- specifications

\* The state of a stage that is not part of the run.
FbIdle == FbStart(FALSE, FALSE, Nil, NoTimer, NoTimer)
FwIdle == FwStart(0, 0)
CaIdle == CaStart({}, FALSE, CaEmptyBackend)
RdIdle == RdStart([n \in RdNames |-> NoTarget])
QcIdle == QcStart("a.com.", NilMsg)
ScIdle == ScStart(NoTimer)
MkIdle == MkStart(<<>>, {})
McIdle == McStart
NrIdle == NrStart(0)
DmIdle == DmStart(0)

\* doFallback alone.
InitFallback == FbInit /\ FwIdle /\ CaIdle /\ GuStart /\ RdIdle /\ QcIdle /\ ScIdle /\ MkIdle /\ McIdle /\ NrIdle /\ DmIdle

SpecFallback == InitFallback /\ [][FbNext]_vars

\* The times an Exec call of a branch can take, in clock ticks.
FbExecTimes == 1 .. 3 * Threshold

\* doFallback with branches whose Exec calls take a fixed time.
InitFallbackTimed ==
    /\ \E standby \in BOOLEAN, hasDdl \in BOOLEAN, r \in {Nil, "R0"} :
       \E pDur \in FbExecTimes, sDur \in FbExecTimes :
           FbStart(standby, hasDdl, r, pDur, sDur)
    /\ FwIdle /\ CaIdle /\ GuStart /\ RdIdle /\ QcIdle /\ ScIdle /\ MkIdle /\ McIdle /\ NrIdle /\ DmIdle

SpecFallbackTimed == InitFallbackTimed /\ [][FbNext]_vars

\* Forward.Exec alone.
InitForward == FwInit /\ FbIdle /\ CaIdle /\ GuStart /\ RdIdle /\ QcIdle /\ ScIdle /\ MkIdle /\ McIdle /\ NrIdle /\ DmIdle

SpecForward == InitForward /\ [][FwNext]_vars

\* The cache alone.
InitCache == CaInit /\ FbIdle /\ FwIdle /\ GuStart /\ RdIdle /\ QcIdle /\ ScIdle /\ MkIdle /\ McIdle /\ NrIdle /\ DmIdle

SpecCache == InitCache /\ [][CaNext]_vars

\* The cache with the lazy cache on, with the requests' contexts being
\* cancelled, and with a started refresh going on to its end.
InitCacheLazy ==
    /\ CaStart(CaLazyQuestions, TRUE,
               [k \in CaKeys |->
                  IF k \in {getMsgKey(q) : q \in CaLazyQuestions}
                    THEN [content |-> DumpContent, st |-> "fresh"]
                    ELSE NoItem])
    /\ FbIdle /\ FwIdle /\ GuStart /\ RdIdle /\ QcIdle /\ ScIdle /\ MkIdle /\ McIdle /\ NrIdle /\ DmIdle

SpecCacheLive == InitCacheLazy /\ [][CaCtxNext]_vars /\ CaRefreshFairness

\* Concurrent getUpstream calls alone.
InitUpstream == GuStart /\ FbIdle /\ FwIdle /\ CaIdle /\ RdIdle /\ QcIdle /\ ScIdle /\ MkIdle /\ McIdle /\ NrIdle /\ DmIdle

SpecUpstream == InitUpstream /\ [][GuNext]_vars

\* Redirect.Exec alone.
InitRedirect == RdInit /\ FbIdle /\ FwIdle /\ CaIdle /\ GuStart /\ QcIdle /\ ScIdle /\ MkIdle /\ McIdle /\ NrIdle /\ DmIdle

SpecRedirect == InitRedirect /\ [][RdNext]_vars

\* The query contexts of one doFallback call.
InitContexts ==
    QcInit /\ FbIdle /\ FwIdle /\ CaIdle /\ GuStart /\ RdIdle /\ ScIdle /\ MkIdle /\ McIdle /\ NrIdle /\ DmIdle

SpecContexts == InitContexts /\ [][QcNext]_vars

\* The contexts of the sub-tasks of one request.
InitSubTasks ==
    ScInit /\ FbIdle /\ FwIdle /\ CaIdle /\ GuStart /\ RdIdle /\ QcIdle /\ MkIdle /\ McIdle /\ NrIdle /\ DmIdle

SpecSubTasks == InitSubTasks /\ [][ScNext]_vars

\* The mark stage alone.
InitMark ==
    /\ MkInit /\ FbIdle /\ FwIdle /\ CaIdle /\ GuStart /\ RdIdle /\ QcIdle /\ ScIdle
    /\ McIdle /\ NrIdle /\ DmIdle

SpecMark == InitMark /\ [][MkNext]_vars

\* The memo cache of a Redirect under concurrent requests.
InitMemo ==
    /\ McStart /\ FbIdle /\ FwIdle /\ CaIdle /\ GuStart /\ RdIdle /\ QcIdle /\ ScIdle
    /\ MkIdle /\ NrIdle /\ DmIdle

SpecMemo == InitMemo /\ [][McNext]_vars

\* The construction of a Redirect: NewRedirect and its loaders.
InitNewRedirect ==
    /\ NrInit /\ FbIdle /\ FwIdle /\ CaIdle /\ GuStart /\ RdIdle /\ QcIdle /\ ScIdle
    /\ MkIdle /\ McIdle /\ DmIdle

SpecNewRedirect == InitNewRedirect /\ [][NrNext]_vars

\* One call of the domain Matcher's Match.
InitMatcher ==
    /\ DmInit /\ FbIdle /\ FwIdle /\ CaIdle /\ GuStart /\ RdIdle /\ QcIdle /\ ScIdle
    /\ MkIdle /\ McIdle /\ NrIdle

SpecMatcher == InitMatcher /\ [][DmNext]_vars
====
